---- MODULE Spec2Model ----
(***************************************************************************)
(* AO Launcher front end (static/js/script.js): the roster of accounts and *)
(* characters with its selection flags, the settings persisted in the      *)
(* browser's local storage, and the launch sequence of the Launch button   *)
(* (conflict check, auto-cycle close and recheck, launch, focus).          *)
(*                                                                         *)
(* Spec       the roster handlers, from the state after construction.      *)
(* SpecLaunch one launch sequence at a time, started from a bounded family *)
(*            of rosters and settings, with the backend's responses drawn  *)
(*            from bounded sets.                                           *)
(***************************************************************************)
EXTENDS Integers, Sequences, FiniteSets, TLC

(***************************************************************************)
(* Bounds of the model and the small sets the inputs are drawn from.       *)
(***************************************************************************)
MaxAccounts == 2
MaxChars == 2
MaxId == 2
MaxRosterChars == 3
MaxLaunchChars == 2
MaxFileAccounts == 1
MaxOverlapChars == 2
MaxOverlapAccounts == 1
MaxCopyRequests == 1
MaxPrefsChars == 2
MaxPromptId == 1
MaxBatChars == 2
MaxOverlapCopies == 2

AccountNames == {"Bar", "Foo"}
CharNames == {"a", "B"}
CharIds == 1..MaxId
Passwords == {"pw"}
FolderValues == {"", "C:\\AO"}
RunningNames == {"a", "A", "b"}

VARIABLES
    appSettings,        \* script.js:7 the global settings object
    localStorage,       \* the 'aoLauncherSettings' item: NoItem or the stored document
    lastOp,             \* the handler that ran last and the message it showed
    pc,                 \* the await the launch sequence is suspended at, or "idle"
    selectedCharacters, \* script.js:428 local of launchBtn.onclick
    selectedAccounts,   \* script.js:429
    accountsData,       \* script.js:460
    accountsToClose,    \* script.js:485
    checkResult,        \* script.js:479, replaced at script.js:594
    requests,           \* the fetch calls of the current launch sequence, in order
    checksSeen,         \* status and conflicted accounts of each check answer (history)
    otherRun,           \* a second run of launchBtn.onclick, suspended at an await
    prefsPage           \* the preference-copy page: its script and that script's state

launchVars ==
    <<pc, selectedCharacters, selectedAccounts, accountsData, accountsToClose,
      checkResult, requests, checksSeen, otherRun>>

vars == <<appSettings, localStorage, lastOp, launchVars, prefsPage>>

NoItem == [absent |-> TRUE]

(***************************************************************************)
(* String.prototype.toLowerCase and String.prototype.localeCompare on the  *)
(* names of the model: lower case sorts before upper case of the same      *)
(* letter, and two names compare equal only when they are the same string. *)
(***************************************************************************)
toLowerCase(s) ==
    CASE s = "A" -> "a"
      [] s = "B" -> "b"
      [] OTHER -> s

CollationRank(s) ==
    CASE s = "a" -> 1
      [] s = "A" -> 2
      [] s = "b" -> 3
      [] s = "B" -> 4
      [] s = "Bar" -> 5
      [] s = "Foo" -> 6
      [] OTHER -> 0

localeCompare(s, t) ==
    IF CollationRank(s) < CollationRank(t) THEN -1
    ELSE IF CollationRank(s) > CollationRank(t) THEN 1
    ELSE 0

(***************************************************************************)
(* Array.prototype.sort with the comparator (a, b) =>                      *)
(* a.name.localeCompare(b.name): a stable sort by name.                    *)
(***************************************************************************)
RECURSIVE InsertByName(_, _)
InsertByName(sorted, x) ==
    IF sorted = <<>> THEN <<x>>
    ELSE IF localeCompare(sorted[Len(sorted)].name, x.name) <= 0
         THEN Append(sorted, x)
         ELSE Append(InsertByName(SubSeq(sorted, 1, Len(sorted) - 1), x),
                     sorted[Len(sorted)])

RECURSIVE SortByName(_)
SortByName(s) ==
    IF s = <<>> THEN <<>>
    ELSE InsertByName(SortByName(SubSeq(s, 1, Len(s) - 1)), s[Len(s)])

(***************************************************************************)
(* renderUI's effect on the state: nothing for an empty roster, otherwise  *)
(* the accounts are sorted in place and then each account's characters.    *)
(***************************************************************************)
SortedAccountsOnly(accounts) ==
    IF Len(accounts) = 0 THEN accounts ELSE SortByName(accounts)

SortedAccounts(accounts) ==
    IF Len(accounts) = 0 THEN accounts
    ELSE LET byName == SortByName(accounts)
         IN [i \in 1..Len(byName) |->
                [byName[i] EXCEPT !.characters = SortByName(@)]]

renderUI(settings) == [settings EXCEPT !.accounts = SortedAccounts(@)]

(***************************************************************************)
(* JSON.stringify(appSettings) and JSON.parse of the stored text. The      *)
(* document keeps every field of the settings object; an item that was     *)
(* never written is NoItem.                                                *)
(***************************************************************************)
\* The ids NaN and null, which are no numbers, next to the ids 1..MaxId.
NaN == 0 - 1
Null == 0 - 2

\* JSON.stringify writes a NaN as null; every other value of the settings
\* (strings, booleans, finite numbers, arrays, plain objects) is written as
\* it is and parsed back to itself. An account object without a characters
\* key is written without one.
HasCharacters(account) == "characters" \in DOMAIN account

JsonStringify(settings) ==
    [absent |-> FALSE,
     doc |-> [settings EXCEPT !.accounts =
                [i \in 1..Len(@) |->
                    IF HasCharacters(@[i])
                    THEN [@[i] EXCEPT !.characters =
                            [j \in 1..Len(@) |->
                                [@[j] EXCEPT !.id = IF @ = NaN THEN Null ELSE @]]]
                    ELSE @[i]]]]

JsonParse(item) == item.doc

saveSettingsToLocalStorage(settings) == JsonStringify(settings)

DefaultSettings ==
    [gameFolder |-> "", dllFolder |-> "", accounts |-> <<>>, autoCycle |-> FALSE]

(***************************************************************************)
(* No launch sequence is in flight: the locals of launchBtn.onclick do not *)
(* exist.                                                                  *)
(***************************************************************************)
NoResult ==
    [ok |-> FALSE, status |-> "none", conflictedAccounts |-> {},
     runningCharacters |-> {}]

\* A run of launchBtn.onclick that has not started or has returned.
IdleRun ==
    [pc |-> "idle", selectedCharacters |-> <<>>, selectedAccounts |-> {},
     accountsData |-> <<>>, accountsToClose |-> {}, checkResult |-> NoResult,
     requests |-> <<>>, checksSeen |-> <<>>]

\* The preference-copy page is not open.
NoPage == [script |-> "none"]

LaunchIdle ==
    /\ prefsPage = NoPage
    /\ otherRun = IdleRun
    /\ pc = "idle"
    /\ selectedCharacters = <<>>
    /\ selectedAccounts = {}
    /\ accountsData = <<>>
    /\ accountsToClose = {}
    /\ checkResult = NoResult
    /\ requests = <<>>
    /\ checksSeen = <<>>

(***************************************************************************)
(* Selection helpers.                                                      *)
(***************************************************************************)
SelectedIndices(account) ==
    {j \in 1..Len(account.characters) : account.characters[j].selected}

SelectedCount(account) == Cardinality(SelectedIndices(account))

RECURSIVE TotalChars(_)
TotalChars(accounts) ==
    IF accounts = <<>> THEN 0
    ELSE Len(accounts[1].characters) + TotalChars(Tail(accounts))

AnySelected(accounts) ==
    \E i \in 1..Len(accounts) : SelectedCount(accounts[i]) > 0

(***************************************************************************)
(* checkbox.onclick, plain click: the clicked character takes the negation *)
(* of its flag; when that is true the other characters of the same account *)
(* are deselected.                                                         *)
(***************************************************************************)
PlainToggleAcrossAccounts(accounts, accIndex, charIndex) ==
    LET intendedState == ~accounts[accIndex].characters[charIndex].selected
    IN [idx \in 1..Len(accounts) |->
            [accounts[idx] EXCEPT !.characters =
                [index \in 1..Len(@) |->
                    IF idx = accIndex /\ index = charIndex
                    THEN [@[index] EXCEPT !.selected = intendedState]
                    ELSE IF intendedState THEN [@[index] EXCEPT !.selected = FALSE]
                    ELSE @[index]]]]

PlainToggleKeepingOthers(accounts, accIndex, charIndex) ==
    [accounts EXCEPT ![accIndex].characters[charIndex].selected = ~@]

PlainToggle(accounts, accIndex, charIndex) ==
    LET intendedState == ~accounts[accIndex].characters[charIndex].selected
    IN [accounts EXCEPT ![accIndex].characters =
            [index \in 1..Len(@) |->
                IF index = charIndex THEN [@[index] EXCEPT !.selected = intendedState]
                ELSE IF intendedState THEN [@[index] EXCEPT !.selected = FALSE]
                ELSE @[index]]]

ExclusiveToggleWithinAccount(accounts, accIndex, charIndex) ==
    [accounts EXCEPT ![accIndex].characters =
        [cidx \in 1..Len(@) |-> [@[cidx] EXCEPT !.selected = (cidx = charIndex)]]]

(***************************************************************************)
(* checkbox.onclick, Ctrl+click: every character of every account gets the *)
(* flag (idx === accIndex && cidx === charIndex).                          *)
(***************************************************************************)
ExclusiveToggle(accounts, accIndex, charIndex) ==
    [idx \in 1..Len(accounts) |->
        [accounts[idx] EXCEPT !.characters =
            [cidx \in 1..Len(@) |->
                [@[cidx] EXCEPT !.selected = (idx = accIndex /\ cidx = charIndex)]]]]

(***************************************************************************)
(* The roster handlers end with saveSettingsToLocalStorage(); renderUI():  *)
(* the item is written before renderUI sorts the roster in place.          *)
(***************************************************************************)
SaveAndRender(settings) ==
    /\ localStorage' = saveSettingsToLocalStorage(settings)
    /\ appSettings' = renderUI(settings)
    /\ UNCHANGED <<launchVars, prefsPage>>

Toggle(accIndex, charIndex, ctrlKey) ==
    /\ accIndex \in 1..Len(appSettings.accounts)
    /\ charIndex \in 1..Len(appSettings.accounts[accIndex].characters)
    /\ SaveAndRender([appSettings EXCEPT !.accounts =
            IF ctrlKey THEN ExclusiveToggle(@, accIndex, charIndex)
            ELSE PlainToggle(@, accIndex, charIndex)])
    /\ lastOp' = [op |-> IF ctrlKey THEN "ctrlToggle" ELSE "toggle",
                  message |-> "none", text |-> ""]

(***************************************************************************)
(* add-char-btn onclick: a non-empty nickname and an id are prompted for.  *)
(* The id typed is a numeral, blanks (" "), or a word ("x"); the empty     *)
(* text and what isNaN() calls not a number are refused with a warning,    *)
(* anything else is pushed with parseInt(charId, 10) as its id,            *)
(* unselected.                                                             *)
(***************************************************************************)
IdPrompts ==
    [kind : {"numeral"}, n : 1..MaxPromptId]
        \cup {[kind |-> "blank", n |-> 0], [kind |-> "word", n |-> 0]}

\* isNaN(text): Number(" ") is 0, Number("x") is NaN.
isNaN(charId) == charId.kind = "word"

\* parseInt(text, 10): blanks hold no digit.
parseInt(charId) == IF charId.kind = "numeral" THEN charId.n ELSE NaN

AddCharacter(accIndex, charName, charId) ==
    /\ accIndex \in 1..Len(appSettings.accounts)
    /\ Len(appSettings.accounts[accIndex].characters) < MaxChars
    /\ TotalChars(appSettings.accounts) < MaxRosterChars
    /\ IF isNaN(charId)
       THEN /\ lastOp' = [op |-> "addChar", message |-> "warning",
                          text |-> "invalidCharacterId"]
            /\ UNCHANGED <<appSettings, localStorage, launchVars, prefsPage>>
       ELSE /\ SaveAndRender([appSettings EXCEPT !.accounts[accIndex].characters =
                    Append(@, [name |-> charName, id |-> parseInt(charId),
                               selected |-> FALSE, comment |-> ""])])
            /\ lastOp' = [op |-> "addChar", message |-> "none", text |-> ""]

RemoveAt(s, k) == [i \in 1..(Len(s) - 1) |-> IF i < k THEN s[i] ELSE s[i + 1]]

(***************************************************************************)
(* remove-char-btn onclick, confirmed.                                     *)
(***************************************************************************)
RemoveCharacter(accIndex, charIndex) ==
    /\ accIndex \in 1..Len(appSettings.accounts)
    /\ charIndex \in 1..Len(appSettings.accounts[accIndex].characters)
    /\ SaveAndRender([appSettings EXCEPT !.accounts[accIndex].characters =
            RemoveAt(@, charIndex)])
    /\ lastOp' = [op |-> "removeChar", message |-> "none", text |-> ""]

(***************************************************************************)
(* remove-account-btn onclick, confirmed.                                  *)
(***************************************************************************)
RemoveAccount(accIndex) ==
    /\ accIndex \in 1..Len(appSettings.accounts)
    /\ SaveAndRender([appSettings EXCEPT !.accounts = RemoveAt(@, accIndex)])
    /\ lastOp' = [op |-> "removeAccount", message |-> "none", text |-> ""]

(***************************************************************************)
(* addAccountBtn.onclick: a non-empty name and password are prompted for.  *)
(***************************************************************************)
AddAccount(accName, password) ==
    /\ Len(appSettings.accounts) < MaxAccounts
    /\ SaveAndRender([appSettings EXCEPT !.accounts =
            Append(@, [name |-> accName, password |-> password,
                       characters |-> <<>>])])
    /\ lastOp' = [op |-> "addAccount", message |-> "none", text |-> ""]

(***************************************************************************)
(* clearSelectionBtn.onclick: every selected flag is cleared; the message  *)
(* is shown only when some flag was set.                                   *)
(***************************************************************************)
ClearedFirstSelected(accounts) ==
    LET isFirst(i, j) ==
            /\ accounts[i].characters[j].selected
            /\ \A h \in 1..i : \A k \in 1..Len(accounts[h].characters) :
                  (h < i \/ k < j) => ~accounts[h].characters[k].selected
    IN [i \in 1..Len(accounts) |->
            [accounts[i] EXCEPT !.characters =
                [j \in 1..Len(@) |->
                    IF isFirst(i, j) THEN [@[j] EXCEPT !.selected = FALSE]
                    ELSE @[j]]]]

ClearedAccounts(accounts) ==
    [i \in 1..Len(accounts) |->
        [accounts[i] EXCEPT !.characters =
            [j \in 1..Len(@) |-> [@[j] EXCEPT !.selected = FALSE]]]]

ClearSelectionAlwaysAnnounced ==
    /\ SaveAndRender([appSettings EXCEPT !.accounts = ClearedAccounts(@)])
    /\ lastOp' = [op |-> "clearSelection", message |-> "info",
                  text |-> "selectionsCleared"]

ClearSelection ==
    /\ SaveAndRender([appSettings EXCEPT !.accounts = ClearedAccounts(@)])
    /\ lastOp' = [op |-> "clearSelection",
                  message |-> IF AnySelected(appSettings.accounts)
                              THEN "info" ELSE "none",
                  text |-> IF AnySelected(appSettings.accounts)
                           THEN "selectionsCleared" ELSE ""]

(***************************************************************************)
(* The config files the user may pick: text that does not parse, a         *)
(* document that fails the structure test (gameFolder and dllFolder        *)
(* strings, accounts an array), or a settings document. What a document    *)
(* says about selection, order and ids is whatever the file holds.         *)
(***************************************************************************)
SeqsUpTo(S, n) == UNION {[1..k -> S] : k \in 0..n}

FileOrder == <<"B", "a", "B">>

FileAccounts ==
    {[name |-> n, password |-> p,
      characters |-> [j \in 1..Len(names) |->
                        [name |-> names[j], id |-> j,
                         selected |-> flags[j], comment |-> ""]]] :
        n \in {"Foo"}, p \in Passwords,
        names \in {SubSeq(FileOrder, 1, k) : k \in 0..MaxChars},
        flags \in [1..MaxChars -> BOOLEAN]}

FileRosters == SeqsUpTo(FileAccounts, MaxFileAccounts)

ConfigFiles ==
    {[kind |-> "unparsable"], [kind |-> "invalid"]}
    \cup {[kind |-> "settings",
           doc |-> [gameFolder |-> "C:\\AO", dllFolder |-> "C:\\AO",
                    accounts |-> r, autoCycle |-> TRUE]] : r \in FileRosters}

\* Documents that pass the structure test with an account object that has
\* no characters array.
MalformedFiles ==
    {[kind |-> "settings",
      doc |-> [gameFolder |-> "C:\\AO", dllFolder |-> "C:\\AO",
               accounts |-> <<[name |-> "Foo", password |-> p]>>,
               autoCycle |-> TRUE]] : p \in Passwords}

(***************************************************************************)
(* renderUI on a roster with an account without characters: the accounts   *)
(* are sorted, the characters of the accounts before the first such        *)
(* account are sorted, and account.characters.sort raises a TypeError.     *)
(***************************************************************************)
RenderThrows(settings) ==
    \E i \in 1..Len(settings.accounts) : ~HasCharacters(settings.accounts[i])

renderUIUntilThrow(settings) ==
    LET byName == SortByName(settings.accounts)
        lacking == {i \in 1..Len(byName) : ~HasCharacters(byName[i])}
        first == CHOOSE i \in lacking : \A k \in lacking : i <= k
    IN [settings EXCEPT !.accounts =
            [i \in 1..Len(byName) |->
                IF i < first THEN [byName[i] EXCEPT !.characters = SortByName(@)]
                ELSE byName[i]]]

(***************************************************************************)
(* loadConfigFileInput.onchange, confirmed, then reader.onload: a document *)
(* that passes the structure test replaces appSettings as a whole, is      *)
(* saved and rendered, and an exception of the rendering is caught and     *)
(* reported like one of the parsing; a document that fails the test or     *)
(* does not parse only shows an error.                                     *)
(***************************************************************************)
LoadConfigFile(file) ==
    IF file.kind = "settings" /\ RenderThrows(file.doc)
    THEN /\ localStorage' = saveSettingsToLocalStorage(file.doc)
         /\ appSettings' = renderUIUntilThrow(file.doc)
         /\ lastOp' = [op |-> "loadConfig", message |-> "error", text |-> "parseError"]
         /\ UNCHANGED <<launchVars, prefsPage>>
    ELSE IF file.kind = "settings"
    THEN /\ SaveAndRender(file.doc)
         /\ lastOp' = [op |-> "loadConfig", message |-> "success", text |-> "configLoaded"]
    ELSE /\ lastOp' = [op |-> "loadConfig", message |-> "error",
                       text |-> IF file.kind = "invalid" THEN "invalidFormat"
                                ELSE "parseError"]
         /\ UNCHANGED <<appSettings, localStorage, launchVars, prefsPage>>

(***************************************************************************)
(* saveConfigBtn.onclick: the text JSON.stringify(appSettings, null, 2) is *)
(* downloaded as ao_launcher_config.json; nothing of the state changes.    *)
(***************************************************************************)
SaveConfig ==
    /\ lastOp' = [op |-> "saveConfig", message |-> "success",
                  text |-> "configSaved", download |-> JsonStringify(appSettings)]
    /\ UNCHANGED <<appSettings, localStorage, launchVars, prefsPage>>

\* The file picked is the one just downloaded: its text parses, and the
\* structure test (script.js:853-855) passes for what the page wrote.
ReadConfigFile(text) == [kind |-> "settings", doc |-> JsonParse(text)]

LoadSavedConfig ==
    /\ lastOp.op = "saveConfig"
    /\ LoadConfigFile(ReadConfigFile(lastOp.download))

(***************************************************************************)
(* A page load: the script starts from the default appSettings, then       *)
(* DOMContentLoaded runs loadSettingsFromLocalStorage() and renderUI().    *)
(***************************************************************************)
loadSettingsFromLocalStorage(item) ==
    IF item = NoItem THEN DefaultSettings
    ELSE LET parsedSettings == JsonParse(item)
         IN [gameFolder |-> IF parsedSettings.gameFolder = "" THEN ""
                            ELSE parsedSettings.gameFolder,
             dllFolder |-> IF parsedSettings.dllFolder = "" THEN ""
                           ELSE parsedSettings.dllFolder,
             accounts |-> parsedSettings.accounts,
             autoCycle |-> (parsedSettings.autoCycle \/ FALSE)]

PageLoad ==
    /\ appSettings' = renderUI(loadSettingsFromLocalStorage(localStorage))
    /\ lastOp' = [op |-> "pageLoad", message |-> "none", text |-> ""]
    /\ UNCHANGED <<localStorage, launchVars, prefsPage>>

Init ==
    /\ appSettings = DefaultSettings
    /\ localStorage = NoItem
    /\ lastOp = [op |-> "init", message |-> "none", text |-> ""]
    /\ LaunchIdle

Next ==
    \/ \E i \in 1..MaxAccounts, j \in 1..MaxChars, c \in BOOLEAN : Toggle(i, j, c)
    \/ \E i \in 1..MaxAccounts, n \in CharNames, k \in IdPrompts : AddCharacter(i, n, k)
    \/ \E i \in 1..MaxAccounts, j \in 1..MaxChars : RemoveCharacter(i, j)
    \/ \E i \in 1..MaxAccounts : RemoveAccount(i)
    \/ \E n \in AccountNames, p \in Passwords : AddAccount(n, p)
    \/ ClearSelection
    \/ \E f \in ConfigFiles : LoadConfigFile(f)
    \/ SaveConfig
    \/ LoadSavedConfig
    \/ PageLoad

Spec == Init /\ [][Next]_vars

(***************************************************************************)
(* THE LAUNCH SEQUENCE: launchBtn.onclick, an async function. Each action  *)
(* below is the code that runs between two awaits.                         *)
(***************************************************************************)

(***************************************************************************)
(* The selected characters in roster order, as {accountName, password,     *)
(* characterId}, and the names of the accounts that have one.              *)
(***************************************************************************)
RECURSIVE SelectedOfAccount(_, _)
SelectedOfAccount(account, chars) ==
    IF chars = <<>> THEN <<>>
    ELSE (IF Head(chars).selected
          THEN <<[accountName |-> account.name, password |-> account.password,
                  characterId |-> Head(chars).id]>>
          ELSE <<>>) \o SelectedOfAccount(account, Tail(chars))

RECURSIVE CollectSelected(_)
CollectSelected(accounts) ==
    IF accounts = <<>> THEN <<>>
    ELSE SelectedOfAccount(Head(accounts), Head(accounts).characters)
         \o CollectSelected(Tail(accounts))

AccountNamesOf(selected) == {selected[k].accountName : k \in 1..Len(selected)}

AccountsDataOf(accounts) ==
    [i \in 1..Len(accounts) |->
        [accountName |-> accounts[i].name,
         characters |-> [j \in 1..Len(accounts[i].characters) |->
            [characterName |-> accounts[i].characters[j].name,
             characterId |-> accounts[i].characters[j].id]]]]

CheckRequest(data, selAccounts) ==
    [url |-> "/check_and_focus_window",
     body |-> [allAccounts |-> data, selectedAccounts |-> selAccounts]]

CloseRequestForAllAccounts(toClose, data) ==
    [url |-> "/close_running_instances",
     body |-> [selectedAccounts |-> {data[k].accountName : k \in 1..Len(data)},
               allAccounts |-> data]]

CloseRequest(toClose, data) ==
    [url |-> "/close_running_instances",
     body |-> [selectedAccounts |-> toClose, allAccounts |-> data]]

LaunchRequest(settings, characters) ==
    [url |-> "/launch",
     body |-> [gameFolder |-> settings.gameFolder, dllFolder |-> settings.dllFolder,
               characters |-> characters]]

FocusRequest == [url |-> "/focus_launcher_window", body |-> [empty |-> TRUE]]

(***************************************************************************)
(* The sequence is over: the function returned and its locals are gone.    *)
(* The requests it sent stay on record until the next click.               *)
(***************************************************************************)
EndSequence(op, type, text) ==
    /\ pc' = "idle"
    /\ selectedCharacters' = <<>>
    /\ selectedAccounts' = {}
    /\ accountsData' = <<>>
    /\ accountsToClose' = {}
    /\ checkResult' = NoResult
    /\ lastOp' = [op |-> op, message |-> type, text |-> text]

LaunchValidationSelectionOnly(settings, selected) ==
    IF Len(selected) = 0 THEN "noCharactersSelected" ELSE ""

\* The validation of script.js:444-452: the message key of the rejection, or
\* "" when the sequence may go on.
LaunchValidation(settings, selected) ==
    IF Len(selected) = 0 THEN "noCharactersSelected"
    ELSE IF settings.gameFolder = "" \/ settings.dllFolder = "" THEN "specifyFolders"
    ELSE ""

(***************************************************************************)
(* Launch pressed: collect the selection, validate, send the check.        *)
(***************************************************************************)
LaunchClick ==
    /\ UNCHANGED <<otherRun, prefsPage>>
    /\ pc = "idle"
    /\ UNCHANGED <<appSettings, localStorage>>
    /\ checksSeen' = <<>>
    /\ LET selected == CollectSelected(appSettings.accounts)
           rejection == LaunchValidation(appSettings, selected)
       IN IF rejection # ""
          THEN /\ EndSequence("launchClick",
                              IF rejection = "noCharactersSelected" THEN "warning"
                              ELSE "error",
                              rejection)
               /\ requests' = <<>>
          ELSE /\ selectedCharacters' = selected
               /\ selectedAccounts' = AccountNamesOf(selected)
               /\ accountsData' = AccountsDataOf(appSettings.accounts)
               /\ requests' = <<CheckRequest(AccountsDataOf(appSettings.accounts),
                                             AccountNamesOf(selected))>>
               /\ pc' = "check"
               /\ lastOp' = [op |-> "launchClick", message |-> "info",
                             text |-> "checking"]
               /\ UNCHANGED <<accountsToClose, checkResult>>

(***************************************************************************)
(* Auto-cycle, script.js:484-539.                                          *)
(***************************************************************************)
OwnsRunning(account, runningCharName) ==
    \E j \in 1..Len(account.characters) :
        toLowerCase(account.characters[j].name) = toLowerCase(runningCharName)

\* runningCharToAccount.get(name.toLowerCase()): the name of the first account
\* of the roster with a character of that name, "" (nothing) when there is none.
RunningCharToAccount(accounts, runningCharName) ==
    LET owners == {i \in 1..Len(accounts) : OwnsRunning(accounts[i], runningCharName)}
    IN IF owners = {} THEN ""
       ELSE accounts[CHOOSE i \in owners : \A k \in owners : i <= k].name

\* The name the code finds for one selected entry: the first account with the
\* entry's account name, and in it the first character with the entry's id.
FoundCharacterName(accounts, entry) ==
    LET accs == {i \in 1..Len(accounts) : accounts[i].name = entry.accountName}
    IN IF accs = {} THEN ""
       ELSE LET account == accounts[CHOOSE i \in accs : \A k \in accs : i <= k]
                cs == {j \in 1..Len(account.characters) :
                          account.characters[j].id = entry.characterId}
            IN IF cs = {} THEN ""
               ELSE account.characters[CHOOSE j \in cs : \A k \in cs : j <= k].name

\* selectedCharNamesByAccount.get(accountName): the last entry of that account
\* for which a character was found sets the name; "" (nothing) when none did.
SelectedCharNameByAccount(accounts, selected, accountName) ==
    LET hits == {k \in 1..Len(selected) :
                    /\ selected[k].accountName = accountName
                    /\ FoundCharacterName(accounts, selected[k]) # ""}
    IN IF hits = {} THEN ""
       ELSE FoundCharacterName(accounts,
                selected[CHOOSE k \in hits : \A h \in hits : h <= k])

ComputeAccountsToClose(accounts, selected, runningCharacters) ==
    {RunningCharToAccount(accounts, r) : r \in
        {r \in runningCharacters :
            LET accountName == RunningCharToAccount(accounts, r)
                selectedCharName == SelectedCharNameByAccount(accounts, selected, accountName)
            IN /\ accountName # ""
               /\ \/ selectedCharName = ""
                  \/ toLowerCase(selectedCharName) # toLowerCase(r)}}

FailedToCloseCaseSensitive(accounts, toClose, stillRunning) ==
    {charName \in stillRunning :
        \E i \in 1..Len(accounts) :
            /\ \E j \in 1..Len(accounts[i].characters) :
                  accounts[i].characters[j].name = charName
            /\ accounts[i].name \in toClose}

\* failedToClose, script.js:579-584.
FailedToClose(accounts, toClose, stillRunning) ==
    {charName \in stillRunning :
        LET name == RunningCharToAccount(accounts, charName)
        IN (\E i \in 1..Len(accounts) : OwnsRunning(accounts[i], charName))
           /\ name \in toClose}

RemainingCharactersUnfiltered(selected, conflictedAccounts) == selected

\* remainingCharacters, script.js:621-623.
RemainingCharacters(selected, conflictedAccounts) ==
    SelectSeq(selected, LAMBDA char : char.accountName \notin conflictedAccounts)

(***************************************************************************)
(* The switch on the latest check result (script.js:603-674), with the     *)
(* launch request that follows it.                                         *)
(***************************************************************************)
SendLaunchOfCurrentSelection(op, characters, result) ==
    /\ selectedCharacters' = CollectSelected(appSettings.accounts)
    /\ checkResult' = result
    /\ requests' = Append(requests,
                          LaunchRequest(appSettings, CollectSelected(appSettings.accounts)))
    /\ pc' = "launch"
    /\ lastOp' = [op |-> op, message |-> "info", text |-> "noConflicts"]
    /\ UNCHANGED <<selectedAccounts, accountsData, accountsToClose>>

SendLaunch(op, characters, result) ==
    /\ selectedCharacters' = characters
    /\ checkResult' = result
    /\ requests' = Append(requests, LaunchRequest(appSettings, characters))
    /\ pc' = "launch"
    /\ lastOp' = [op |-> op, message |-> IF result.status \in {"conflicts_found", "no_conflicts"}
                                         THEN "info" ELSE "warning",
                  text |-> IF result.status = "conflicts_found" THEN "launchingRemaining"
                           ELSE IF result.status = "no_conflicts" THEN "noConflicts"
                           ELSE "unknownStatus"]
    /\ UNCHANGED <<selectedAccounts, accountsData, accountsToClose>>

HandleStatusIgnoringConflicts(op, result) ==
    CASE result.status \in {"error", "unsupported"} ->
            /\ EndSequence(op, "error", "checkFailed")
            /\ UNCHANGED requests
      [] OTHER ->
            SendLaunch(op, selectedCharacters, result)

HandleStatusErrorFallsThrough(op, result) ==
    CASE result.status = "conflicts_found" ->
            LET remainingCharacters ==
                    RemainingCharacters(selectedCharacters, result.conflictedAccounts)
            IN IF Len(remainingCharacters) = 0
               THEN /\ EndSequence(op, "error", "conflictsDetected")
                    /\ UNCHANGED requests
               ELSE SendLaunch(op, remainingCharacters, result)
      [] OTHER ->
            SendLaunch(op, selectedCharacters, result)

HandleStatus(op, result) ==
    CASE result.status = "conflicts_found" ->
            LET remainingCharacters ==
                    RemainingCharacters(selectedCharacters, result.conflictedAccounts)
            IN IF Len(remainingCharacters) = 0
               THEN /\ EndSequence(op, "error", "conflictsDetected")
                    /\ UNCHANGED requests
               ELSE SendLaunch(op, remainingCharacters, result)
      [] result.status = "no_conflicts" ->
            SendLaunch(op, selectedCharacters, result)
      [] result.status \in {"error", "unsupported"} ->
            /\ EndSequence(op, "error", "checkFailed")
            /\ UNCHANGED requests
      [] OTHER ->
            SendLaunch(op, selectedCharacters, result)

(***************************************************************************)
(* What the backend may answer. A check answers with a status, the         *)
(* conflicted accounts and the running characters; an error or unsupported *)
(* answer carries no running set. "reject" is a fetch or json() that       *)
(* throws, ok = FALSE an HTTP error status.                                *)
(***************************************************************************)
RunningSets == SUBSET RunningNames

CheckOk(status, conflicted, running) ==
    [kind |-> "json", ok |-> TRUE, status |-> status,
     conflictedAccounts |-> conflicted, runningCharacters |-> running]

CheckResponses ==
    {[kind |-> "reject", ok |-> FALSE, status |-> "none",
      conflictedAccounts |-> {}, runningCharacters |-> {}],
     [kind |-> "json", ok |-> FALSE, status |-> "error",
      conflictedAccounts |-> {}, runningCharacters |-> {}]}
    \cup {CheckOk("no_conflicts", {}, r) : r \in RunningSets}
    \cup {CheckOk("conflicts_found", c, r) :
            c \in (SUBSET AccountNames) \ {{}}, r \in RunningSets}
    \cup {CheckOk(st, {}, {}) : st \in {"error", "unsupported", "unknown"}}

LaunchResponses ==
    {[kind |-> "reject", ok |-> FALSE, status |-> "none"],
     [kind |-> "json", ok |-> FALSE, status |-> "error"]}
    \cup {[kind |-> "json", ok |-> TRUE, status |-> st] :
            st \in {"success", "partial_success", "error"}}

FocusResponses == {"success", "failure", "reject"}

\* What checksSeen keeps of an answer.
Verdict(resp) ==
    [ok |-> resp.ok, status |-> resp.status,
     conflictedAccounts |-> resp.conflictedAccounts]

(***************************************************************************)
(* The initial check answered (script.js:479-660).                         *)
(***************************************************************************)
CheckResponse(resp) ==
    /\ UNCHANGED <<otherRun, prefsPage>>
    /\ pc = "check"
    /\ UNCHANGED <<appSettings, localStorage>>
    /\ checksSeen' = Append(checksSeen, Verdict(resp))
    /\ IF resp.kind = "reject"
       THEN /\ EndSequence("checkResponse", "error", "backendUnreachable")
            /\ UNCHANGED requests
       ELSE IF ~resp.ok
       THEN /\ EndSequence("checkResponse", "error", "errorChecking")
            /\ UNCHANGED requests
       ELSE LET toClose == IF appSettings.autoCycle
                           THEN ComputeAccountsToClose(appSettings.accounts,
                                    selectedCharacters, resp.runningCharacters)
                           ELSE {}
            IN IF toClose # {}
               THEN /\ accountsToClose' = toClose
                    /\ checkResult' = resp
                    /\ requests' = Append(requests, CloseRequest(toClose, accountsData))
                    /\ pc' = "close"
                    /\ lastOp' = [op |-> "checkResponse", message |-> "none", text |-> ""]
                    /\ UNCHANGED <<selectedCharacters, selectedAccounts, accountsData>>
               ELSE HandleStatus("checkResponse", resp)

(***************************************************************************)
(* The close request answered (its response is not read), or threw.        *)
(***************************************************************************)
CloseResponseIgnoringFailure(rejected) ==
    /\ UNCHANGED <<otherRun, prefsPage>>
    /\ pc = "close"
    /\ UNCHANGED <<appSettings, localStorage, requests, checksSeen>>
    /\ pc' = "settle"
    /\ lastOp' = [op |-> "closeResponse", message |-> "none", text |-> ""]
    /\ UNCHANGED <<selectedCharacters, selectedAccounts, accountsData,
                   accountsToClose, checkResult>>

CloseResponse(rejected) ==
    /\ UNCHANGED <<otherRun, prefsPage>>
    /\ pc = "close"
    /\ UNCHANGED <<appSettings, localStorage, requests, checksSeen>>
    /\ IF rejected
       THEN EndSequence("closeResponse", "error", "errorManagingWindows")
       ELSE /\ pc' = "settle"
            /\ lastOp' = [op |-> "closeResponse", message |-> "none", text |-> ""]
            /\ UNCHANGED <<selectedCharacters, selectedAccounts, accountsData,
                           accountsToClose, checkResult>>

(***************************************************************************)
(* The 5 second timer fired: the check is sent again.                      *)
(***************************************************************************)
SettleElapsedLaunching ==
    /\ UNCHANGED <<otherRun, prefsPage>>
    /\ pc = "settle"
    /\ UNCHANGED <<appSettings, localStorage, checksSeen>>
    /\ SendLaunch("settleElapsed", selectedCharacters, checkResult)

SettleElapsed ==
    /\ UNCHANGED <<otherRun, prefsPage>>
    /\ pc = "settle"
    /\ requests' = Append(requests, CheckRequest(accountsData, selectedAccounts))
    /\ pc' = "recheck"
    /\ lastOp' = [op |-> "settleElapsed", message |-> "none", text |-> ""]
    /\ UNCHANGED <<appSettings, localStorage, selectedCharacters, selectedAccounts,
                   accountsData, accountsToClose, checkResult, checksSeen>>

RecheckResponseRetrying(resp) ==
    /\ UNCHANGED <<otherRun, prefsPage>>
    /\ pc = "recheck"
    /\ UNCHANGED <<appSettings, localStorage>>
    /\ checksSeen' = Append(checksSeen, Verdict(resp))
    /\ IF resp.kind = "reject" \/ ~resp.ok
       THEN /\ EndSequence("recheckResponse", "error", "errorManagingWindows")
            /\ UNCHANGED requests
       ELSE IF FailedToClose(appSettings.accounts, accountsToClose,
                             resp.runningCharacters) # {}
       THEN /\ requests' = Append(requests, CloseRequest(accountsToClose, accountsData))
            /\ pc' = "close"
            /\ lastOp' = [op |-> "recheckResponse", message |-> "none", text |-> ""]
            /\ UNCHANGED <<selectedCharacters, selectedAccounts, accountsData,
                           accountsToClose, checkResult>>
       ELSE HandleStatus("recheckResponse", resp)

RecheckResponseDecidingOnInitial(resp) ==
    /\ UNCHANGED <<otherRun, prefsPage>>
    /\ pc = "recheck"
    /\ UNCHANGED <<appSettings, localStorage>>
    /\ checksSeen' = Append(checksSeen, Verdict(resp))
    /\ IF resp.kind = "reject" \/ ~resp.ok
       THEN /\ EndSequence("recheckResponse", "error", "errorManagingWindows")
            /\ UNCHANGED requests
       ELSE IF FailedToClose(appSettings.accounts, accountsToClose,
                             resp.runningCharacters) # {}
       THEN /\ EndSequence("recheckResponse", "error", "failedToClose")
            /\ UNCHANGED requests
       ELSE HandleStatus("recheckResponse", checkResult)

(***************************************************************************)
(* The recheck answered (script.js:569-599), then the switch.              *)
(***************************************************************************)
RecheckResponse(resp) ==
    /\ UNCHANGED <<otherRun, prefsPage>>
    /\ pc = "recheck"
    /\ UNCHANGED <<appSettings, localStorage>>
    /\ checksSeen' = Append(checksSeen, Verdict(resp))
    /\ IF resp.kind = "reject" \/ ~resp.ok
       THEN /\ EndSequence("recheckResponse", "error", "errorManagingWindows")
            /\ UNCHANGED requests
       ELSE IF FailedToClose(appSettings.accounts, accountsToClose,
                             resp.runningCharacters) # {}
       THEN /\ EndSequence("recheckResponse", "error", "failedToClose")
            /\ UNCHANGED requests
       ELSE HandleStatus("recheckResponse", resp)

(***************************************************************************)
(* The launch answered (script.js:676-731).                                *)
(***************************************************************************)
LaunchResponse(resp) ==
    /\ UNCHANGED <<otherRun, prefsPage>>
    /\ pc = "launch"
    /\ UNCHANGED <<appSettings, localStorage, checksSeen>>
    /\ IF resp.kind = "reject"
       THEN /\ EndSequence("launchResponse", "error", "backendUnreachable")
            /\ UNCHANGED requests
       ELSE IF ~resp.ok
       THEN /\ EndSequence("launchResponse", "error", "launchFailed")
            /\ UNCHANGED requests
       ELSE IF resp.status \in {"success", "partial_success"}
       THEN /\ requests' = Append(requests, FocusRequest)
            /\ pc' = "focus"
            /\ lastOp' = [op |-> "launchResponse",
                          message |-> IF resp.status = "success" THEN "success"
                                      ELSE "warning",
                          text |-> resp.status]
            /\ UNCHANGED <<selectedCharacters, selectedAccounts, accountsData,
                           accountsToClose, checkResult>>
       ELSE /\ EndSequence("launchResponse", "none", "")
            /\ UNCHANGED requests

FocusResponseSurfacingErrors(resp) ==
    /\ UNCHANGED <<otherRun, prefsPage>>
    /\ pc = "focus"
    /\ UNCHANGED <<appSettings, localStorage, requests, checksSeen>>
    /\ IF resp = "success"
       THEN EndSequence("focusResponse", lastOp.message, lastOp.text)
       ELSE EndSequence("focusResponse", "error", "focusFailed")

(***************************************************************************)
(* The focus request answered or threw: logged to the console only.        *)
(***************************************************************************)
FocusResponse(resp) ==
    /\ UNCHANGED <<otherRun, prefsPage>>
    /\ pc = "focus"
    /\ UNCHANGED <<appSettings, localStorage, requests, checksSeen>>
    /\ EndSequence("focusResponse", lastOp.message, lastOp.text)

(***************************************************************************)
(* A launch sequence starts from any sorted roster within the bounds, with *)
(* any selection flags, folder settings and auto-cycle flag, as last saved.*)
(***************************************************************************)
Characters ==
    [name : CharNames, id : CharIds, selected : BOOLEAN, comment : {""}]

Accounts ==
    [name : AccountNames, password : Passwords,
     characters : SeqsUpTo(Characters, MaxChars)]

LaunchRosters ==
    {SortedAccounts(r) : r \in
        {r \in SeqsUpTo(Accounts, MaxAccounts) : TotalChars(r) <= MaxLaunchChars}}

InitLaunch ==
    /\ appSettings \in [gameFolder : FolderValues, dllFolder : FolderValues,
                        accounts : LaunchRosters, autoCycle : BOOLEAN]
    /\ localStorage = saveSettingsToLocalStorage(appSettings)
    /\ lastOp = [op |-> "init", message |-> "none", text |-> ""]
    /\ LaunchIdle

NextLaunch ==
    \/ LaunchClick
    \/ \E resp \in CheckResponses : CheckResponse(resp)
    \/ \E rejected \in BOOLEAN : CloseResponse(rejected)
    \/ SettleElapsed
    \/ \E resp \in CheckResponses : RecheckResponse(resp)
    \/ \E resp \in LaunchResponses : LaunchResponse(resp)
    \/ \E resp \in FocusResponses : FocusResponse(resp)

SpecLaunch == InitLaunch /\ [][NextLaunch]_vars

(***************************************************************************)
(* Selection claims, checked under Spec.                                   *)
(***************************************************************************)
AtMostOneSelectedPerAccount ==
    \A i \in 1..Len(appSettings.accounts) :
        SelectedCount(appSettings.accounts[i]) <= 1

SelectedPositions(accounts) ==
    {<<i, j>> \in (1..Len(accounts)) \X (1..MaxChars) :
        j <= Len(accounts[i].characters) /\ accounts[i].characters[j].selected}

\* C1: right after a plain (non-exclusive) toggle, whatever the roster was
\* before it, every account has at most one selected character.
C1_PlainToggleLeavesAtMostOne ==
    lastOp.op = "toggle" => AtMostOneSelectedPerAccount

\* C2: an exclusive toggle on character charIndex of account accIndex ends
\* with that character selected and no other character of the roster
\* selected, whatever was selected before.
C2_ExclusiveToggleSelectsOnlyTarget ==
    [][\A accIndex \in 1..MaxAccounts, charIndex \in 1..MaxChars :
          Toggle(accIndex, charIndex, TRUE)
              => SelectedPositions(appSettings'.accounts) = {<<accIndex, charIndex>>}]_vars

\* An exclusive toggle has just run in a roster of two accounts holding three
\* characters, and exactly one character is selected.
C2_Witness ==
    /\ lastOp.op = "ctrlToggle"
    /\ Len(appSettings.accounts) = 2
    /\ TotalChars(appSettings.accounts) = 3
    /\ Cardinality(SelectedPositions(appSettings.accounts)) = 1

\* C3: in every settled state reachable from the empty roster by the
\* launcher's operations, every account has at most one selected character.
C3_SettledAtMostOneSelected ==
    pc = "idle" => AtMostOneSelectedPerAccount

(***************************************************************************)
(* Two runs of launchBtn.onclick.  The handler is async and nothing stops  *)
(* a click (or Enter, script.js:899-908) while a run is suspended at an    *)
(* await: each click starts a run with locals of its own.  The variables   *)
(* pc .. checksSeen are the run whose continuation the event loop executes *)
(* next, otherRun is the other one; Resume hands the turn over.            *)
(***************************************************************************)
ThisRun ==
    [pc |-> pc, selectedCharacters |-> selectedCharacters,
     selectedAccounts |-> selectedAccounts, accountsData |-> accountsData,
     accountsToClose |-> accountsToClose, checkResult |-> checkResult,
     requests |-> requests, checksSeen |-> checksSeen]

Resume ==
    /\ pc # "idle" \/ otherRun.pc # "idle"
    /\ otherRun' = ThisRun
    /\ pc' = otherRun.pc
    /\ selectedCharacters' = otherRun.selectedCharacters
    /\ selectedAccounts' = otherRun.selectedAccounts
    /\ accountsData' = otherRun.accountsData
    /\ accountsToClose' = otherRun.accountsToClose
    /\ checkResult' = otherRun.checkResult
    /\ requests' = otherRun.requests
    /\ checksSeen' = otherRun.checksSeen
    /\ UNCHANGED <<appSettings, localStorage, lastOp, prefsPage>>

OverlapRosters ==
    {r \in LaunchRosters :
        /\ Len(r) <= MaxOverlapAccounts
        /\ TotalChars(r) <= MaxOverlapChars
        /\ \A i \in 1..Len(r) :
              /\ r[i].name = "Bar"
              /\ \A j \in 1..Len(r[i].characters) : r[i].characters[j].id = j}

InitOverlap ==
    /\ appSettings \in [gameFolder : {"C:\\AO"}, dllFolder : {"C:\\AO"},
                        accounts : OverlapRosters, autoCycle : BOOLEAN]
    /\ localStorage = saveSettingsToLocalStorage(appSettings)
    /\ lastOp = [op |-> "init", message |-> "none", text |-> ""]
    /\ LaunchIdle

NextOverlap ==
    \/ LaunchClick
    \/ \E resp \in CheckResponses : CheckResponse(resp)
    \/ \E rejected \in BOOLEAN : CloseResponse(rejected)
    \/ SettleElapsed
    \/ \E resp \in CheckResponses : RecheckResponse(resp)
    \/ \E resp \in LaunchResponses : LaunchResponse(resp)
    \/ \E resp \in FocusResponses : FocusResponse(resp)
    \/ Resume

SpecOverlap == InitOverlap /\ [][NextOverlap]_vars

(***************************************************************************)
(* The preference-copy page, static/js/preferences.js.  The page has an    *)
(* appSettings of its own, read from the 'aoLauncherSettings' item when    *)
(* the page loads; it never edits the accounts.                            *)
(***************************************************************************)
PathInputs == {"", " ", "C:\\Prefs"}

\* String.prototype.trim on the values the path box takes here.
Trim(s) == IF s = " " THEN "" ELSE s

\* Two of the fourteen entries of PREFERENCE_ITEMS (preferences.js:4-98).
PREFERENCE_ITEMS ==
    {[id |-> "prefsXml", defaultChecked |-> TRUE],
     [id |-> "referencesBin", defaultChecked |-> FALSE]}

PreferenceItemIds == {item.id : item \in PREFERENCE_ITEMS}

DefaultCheckedItems ==
    {item.id : item \in {i \in PREFERENCE_ITEMS : i.defaultChecked}}

\* sourceCharacterKey === '' (preferences.js:128).
NoKey == <<>>

\* `${accountName}::${characterId}`: a number and its numeral print alike,
\* so the key holds the account name and the number of the id.
getCharacterKey(accountName, characterId) == <<accountName, characterId>>

defaultSettings ==
    [gameFolder |-> "", dllFolder |-> "", autoCycle |-> FALSE,
     prefsBasePath |-> "", accounts |-> <<>>]

\* { ...defaultSettings, ...parsed } (preferences.js:139).
MergeSettings(defaults, parsed) ==
    [f \in (DOMAIN defaults) \cup (DOMAIN parsed) |->
        IF f \in DOMAIN parsed THEN parsed[f] ELSE defaults[f]]

\* loadSettingsFromLocalStorage of preferences.js:131-154.
PreferencesLoadSettings(item) ==
    IF item.absent THEN defaultSettings
    ELSE MergeSettings(defaultSettings, JsonParse(item))

\* The keys of characterLookup (preferences.js:189-206).
CharacterKeys(accounts) ==
    {getCharacterKey(accounts[i].name, accounts[i].characters[j].id) :
        <<i, j>> \in {p \in (1..Len(accounts)) \X (1..MaxChars) :
                        /\ accounts[p[1]].name # ""
                        /\ p[2] <= Len(accounts[p[1]].characters)}}

\* The page after initialise() (preferences.js:126-129, 730-739): a stored
\* source key that names no character is dropped, nothing is targeted, the
\* items have their default marks.
PreferencesPage(item, storedKey) ==
    LET settings == PreferencesLoadSettings(item)
        source == IF storedKey \in CharacterKeys(settings.accounts)
                  THEN storedKey ELSE NoKey
    IN [script |-> "preferences.js",
        appSettings |-> settings,
        prefsBasePathInput |-> settings.prefsBasePath,
        sourceCharacterKey |-> source,
        storedSource |-> source,
        selectedTargets |-> {},
        checkedItems |-> DefaultCheckedItems,
        copying |-> FALSE,   \* copyBtn.disabled
        requests |-> <<>>,   \* the copy request awaiting its answer
        message |-> "none"]

\* Every handler of the page leaves the launcher page's variables alone.
PrefsFrame == UNCHANGED <<appSettings, lastOp, launchVars>>

IsPreferencesJs == prefsPage.script = "preferences.js"

\* The operator types in the path box; nothing listens to that.
PrefsBasePathInput(value) ==
    /\ IsPreferencesJs
    /\ prefsPage' = [prefsPage EXCEPT !.prefsBasePathInput = value]
    /\ UNCHANGED localStorage
    /\ PrefsFrame

\* savePrefsBasePathBtn click, or Enter in the box (preferences.js:680-696).
SavePrefsBasePath ==
    /\ IsPreferencesJs
    /\ LET path == Trim(prefsPage.prefsBasePathInput)
           settings == [prefsPage.appSettings EXCEPT !.prefsBasePath = path]
       IN /\ prefsPage' = [prefsPage EXCEPT
                              !.appSettings = settings,
                              !.message = IF path # "" THEN "success" ELSE "info"]
          /\ localStorage' = JsonStringify(settings)
    /\ PrefsFrame

\* sourceCharacterSelect change (preferences.js:698-707); value is one of the
\* options of the dropdown, '' being the placeholder.
SourceCharacterChange(value) ==
    /\ IsPreferencesJs
    /\ value \in CharacterKeys(prefsPage.appSettings.accounts) \cup {NoKey}
    /\ prefsPage' = [prefsPage EXCEPT
                        !.sourceCharacterKey = value,
                        !.storedSource = value,
                        !.selectedTargets = IF value # NoKey THEN @ \ {value} ELSE @]
    /\ UNCHANGED localStorage
    /\ PrefsFrame

\* A target checkbox changes (preferences.js:359-366); the checkbox of the
\* source is rendered disabled (357).
TargetCheckboxChange(key) ==
    /\ IsPreferencesJs
    /\ key \in CharacterKeys(prefsPage.appSettings.accounts)
    /\ key # prefsPage.sourceCharacterKey
    /\ prefsPage' = [prefsPage EXCEPT
                        !.selectedTargets = IF key \in @ THEN @ \ {key}
                                            ELSE @ \cup {key}]
    /\ UNCHANGED localStorage
    /\ PrefsFrame

\* The keys setAccountSelection walks: the characters of the first account
\* with that name, the source left out (preferences.js:405-411).
AccountSelectionKeys(accounts, accountName, source) ==
    IF \A i \in 1..Len(accounts) : accounts[i].name # accountName THEN {}
    ELSE LET first == CHOOSE i \in 1..Len(accounts) :
                        /\ accounts[i].name = accountName
                        /\ \A h \in 1..(i - 1) : accounts[h].name # accountName
         IN {getCharacterKey(accountName, accounts[first].characters[j].id) :
                j \in 1..Len(accounts[first].characters)} \ {source}

\* The All / None buttons of an account card (preferences.js:310-319, 404-419).
setAccountSelection(accountName, shouldSelect) ==
    /\ IsPreferencesJs
    /\ \E i \in 1..Len(prefsPage.appSettings.accounts) :
          prefsPage.appSettings.accounts[i].name = accountName
    /\ LET keys == AccountSelectionKeys(prefsPage.appSettings.accounts,
                                        accountName, prefsPage.sourceCharacterKey)
       IN prefsPage' = [prefsPage EXCEPT
                           !.selectedTargets = IF shouldSelect THEN @ \cup keys
                                               ELSE @ \ keys]
    /\ UNCHANGED localStorage
    /\ PrefsFrame

\* selectAllTargets / clearAllTargets buttons (preferences.js:421-433).
handleSelectAllTargets ==
    /\ IsPreferencesJs
    /\ prefsPage' = [prefsPage EXCEPT
          !.selectedTargets =
              @ \cup (CharacterKeys(prefsPage.appSettings.accounts)
                         \ {prefsPage.sourceCharacterKey})]
    /\ UNCHANGED localStorage
    /\ PrefsFrame

handleClearAllTargets ==
    /\ IsPreferencesJs
    /\ prefsPage' = [prefsPage EXCEPT !.selectedTargets = {}]
    /\ UNCHANGED localStorage
    /\ PrefsFrame

\* An item checkbox is clicked, and the three item buttons
\* (preferences.js:435-458).
PreferenceItemChange(id) ==
    /\ IsPreferencesJs
    /\ prefsPage' = [prefsPage EXCEPT
                        !.checkedItems = IF id \in @ THEN @ \ {id} ELSE @ \cup {id}]
    /\ UNCHANGED localStorage
    /\ PrefsFrame

handleSelectAllPrefs ==
    /\ IsPreferencesJs
    /\ prefsPage' = [prefsPage EXCEPT !.checkedItems = PreferenceItemIds]
    /\ UNCHANGED localStorage
    /\ PrefsFrame

handleClearAllPrefs ==
    /\ IsPreferencesJs
    /\ prefsPage' = [prefsPage EXCEPT !.checkedItems = {}]
    /\ UNCHANGED localStorage
    /\ PrefsFrame

handleDefaultPrefs ==
    /\ IsPreferencesJs
    /\ prefsPage' = [prefsPage EXCEPT !.checkedItems = DefaultCheckedItems]
    /\ UNCHANGED localStorage
    /\ PrefsFrame

\* buildTargetPayload and getSourcePayload (preferences.js:465-487): the
\* entries of characterLookup under the selected keys.
buildTargetPayload(page) ==
    {[accountName |-> key[1], characterId |-> key[2]] :
        key \in page.selectedTargets \cap CharacterKeys(page.appSettings.accounts)}

getSourcePayload(page) ==
    IF page.sourceCharacterKey \in CharacterKeys(page.appSettings.accounts)
    THEN [accountName |-> page.sourceCharacterKey[1],
          characterId |-> page.sourceCharacterKey[2]]
    ELSE NoKey

\* The message of the check that rejects the copy, or "" (preferences.js:
\* 490-517).
CopyRejection(page) ==
    IF Trim(page.prefsBasePathInput) = "" THEN "setPrefsPath"
    ELSE IF getSourcePayload(page) = NoKey THEN "selectSource"
    ELSE IF page.checkedItems = {} THEN "selectItem"
    ELSE IF buildTargetPayload(page) = {} THEN "chooseTarget"
    ELSE ""

\* copyBtn / copyWithBackupBtn click (preferences.js:489-540), up to the
\* await of the fetch.  The path of the box is stored in the settings and
\* saved (496-499) before the source, the items and the targets are looked
\* at.  Both buttons are disabled while the request is out.
handleCopyPreferences(createBackup) ==
    /\ IsPreferencesJs
    /\ ~prefsPage.copying
    /\ LET basePath == Trim(prefsPage.prefsBasePathInput)
           rejection == CopyRejection(prefsPage)
           pathChanges == basePath # "" /\ prefsPage.appSettings.prefsBasePath # basePath
           settings == IF pathChanges
                       THEN [prefsPage.appSettings EXCEPT !.prefsBasePath = basePath]
                       ELSE prefsPage.appSettings
           payload == [url |-> "/copy_preferences",
                       body |-> [prefsBasePath |-> basePath,
                                 source |-> getSourcePayload(prefsPage),
                                 targets |-> buildTargetPayload(prefsPage),
                                 items |-> prefsPage.checkedItems,
                                 createBackup |-> createBackup]]
       IN /\ localStorage' = IF pathChanges THEN JsonStringify(settings)
                             ELSE localStorage
          /\ prefsPage' = [prefsPage EXCEPT
                !.appSettings = settings,
                !.message = IF rejection = "" THEN "copying" ELSE rejection,
                !.copying = (rejection = ""),
                !.requests = IF rejection = "" THEN Append(@, payload) ELSE @]
    /\ PrefsFrame

CopyResponses == {"reject", "error", "unsupported", "partial_success", "success"}

\* The copy request answered or threw (preferences.js:541-566).
CopyResponse(resp) ==
    /\ IsPreferencesJs
    /\ prefsPage.copying
    /\ prefsPage' = [prefsPage EXCEPT
                        !.copying = FALSE,
                        !.requests = <<>>,
                        !.message = IF resp = "reject" THEN "unexpectedError" ELSE resp]
    /\ UNCHANGED localStorage
    /\ PrefsFrame

(***************************************************************************)
(* The preference-copy page, static/js/prefs.js.  The targets are a Map    *)
(* from account name to a Set of character ids, kept here as the set of    *)
(* <<account name, id>> pairs; the source is the parsed option value.      *)
(* An id is a JavaScript value, a number or a string.                      *)
(***************************************************************************)
IsPrefsJs == prefsPage.script = "prefs.js"

\* loadSettingsFromLocalStorage of prefs.js:164-181 on top of prefs.js:119-125.
\* Unlike script.js:62-69 it keeps the character ids as they were stored.
PrefsJsLoadSettings(item) ==
    IF item.absent
    THEN [gameFolder |-> "", dllFolder |-> "", accounts |-> <<>>,
          autoCycle |-> FALSE, prefsRoot |-> ""]
    ELSE LET parsed == JsonParse(item)
         IN [gameFolder |-> parsed.gameFolder, dllFolder |-> parsed.dllFolder,
             accounts |-> parsed.accounts, autoCycle |-> parsed.autoCycle,
             prefsRoot |-> IF "prefsRoot" \in DOMAIN parsed
                           THEN parsed.prefsRoot ELSE ""]

\* How the stored item writes its character ids: as numbers, which is what
\* script.js:260 pushes, or as numerals in quotes, the older form that
\* script.js:62-69 and 856-862 convert when they read it.
IdTypes == {"number", "string"}

\* The JavaScript value of a stored id n: the number n or the string "n".
IdValue(type, n) == [type |-> type, n |-> n]

\* Number(v) of a number or of a numeral string.
Number(v) == [type |-> "number", n |-> v.n]

\* The page after the script ran (prefs.js:127-130, 463-467).
PrefsJsPage(item, idType) ==
    [script |-> "prefs.js",
     idType |-> idType,
     appSettings |-> PrefsJsLoadSettings(item),
     prefsRootInput |-> PrefsJsLoadSettings(item).prefsRoot,
     selectedSource |-> NoKey,
     selectedTargets |-> {},
     checkedItems |-> DefaultCheckedItems,
     requests |-> <<>>,
     message |-> "none"]

\* account.name and char.id of the characters the page lists (prefs.js:
\* 197-206, 277-331).
PrefsJsCharacters(page) ==
    {<<key[1], IdValue(page.idType, key[2])>> :
        key \in CharacterKeys(page.appSettings.accounts)}

\* isSourceCharacter (prefs.js:264-267): both ids go through Number().
isSourceCharacter(source, accountName, characterId) ==
    /\ source # NoKey
    /\ source[1] = accountName
    /\ Number(source[2]) = Number(characterId)

\* toggleTarget (prefs.js:248-262): the id goes into the Set as it is.
toggleTarget(targets, accountName, characterId, checked) ==
    IF checked THEN targets \cup {<<accountName, characterId>>}
    ELSE targets \ {<<accountName, characterId>>}

\* 'input' on the path box (prefs.js:467-470).
PrefsRootInput(value) ==
    /\ IsPrefsJs
    /\ LET settings == [prefsPage.appSettings EXCEPT !.prefsRoot = value]
       IN /\ prefsPage' = [prefsPage EXCEPT !.prefsRootInput = value,
                                            !.appSettings = settings]
          /\ localStorage' = JsonStringify(settings)
    /\ PrefsFrame

\* handleSourceChange (prefs.js:346-364); key names the option picked, NoKey
\* the placeholder.  The option value is the JSON text of account name and
\* char.id, so JSON.parse gives the id back as it was stored; the id looked
\* up in the Set of targets is Number() of it (355-357).
handleSourceChange(key) ==
    /\ IsPrefsJs
    /\ key \in CharacterKeys(prefsPage.appSettings.accounts) \cup {NoKey}
    /\ LET value == IF key = NoKey THEN NoKey
                    ELSE <<key[1], IdValue(prefsPage.idType, key[2])>>
       IN prefsPage' = [prefsPage EXCEPT
             !.selectedSource = value,
             !.selectedTargets = IF value # NoKey
                                 THEN @ \ {<<value[1], Number(value[2])>>}
                                 ELSE @]
    /\ UNCHANGED localStorage
    /\ PrefsFrame

\* checkbox.onchange of a target row (prefs.js:325-330), disabled for the source.
PrefsJsTargetChange(i, j) ==
    /\ IsPrefsJs
    /\ i \in 1..Len(prefsPage.appSettings.accounts)
    /\ j \in 1..Len(prefsPage.appSettings.accounts[i].characters)
    /\ LET accountName == prefsPage.appSettings.accounts[i].name
           characterId == IdValue(prefsPage.idType,
                                  prefsPage.appSettings.accounts[i].characters[j].id)
       IN /\ ~isSourceCharacter(prefsPage.selectedSource, accountName, characterId)
          /\ prefsPage' = [prefsPage EXCEPT !.selectedTargets =
                toggleTarget(@, accountName, characterId,
                             <<accountName, characterId>> \notin @)]
    /\ UNCHANGED localStorage
    /\ PrefsFrame

\* selectAccountBtn.onclick of the card of account i (prefs.js:294-301).
SelectAccount(i) ==
    /\ IsPrefsJs
    /\ i \in 1..Len(prefsPage.appSettings.accounts)
    /\ LET account == prefsPage.appSettings.accounts[i]
       IN prefsPage' = [prefsPage EXCEPT !.selectedTargets =
             @ \cup {<<account.name, IdValue(prefsPage.idType, account.characters[j].id)>> :
                       j \in {j \in 1..Len(account.characters) :
                                ~isSourceCharacter(prefsPage.selectedSource,
                                     account.name,
                                     IdValue(prefsPage.idType, account.characters[j].id))}}]
    /\ UNCHANGED localStorage
    /\ PrefsFrame

\* clearAccountBtn.onclick (prefs.js:305-308): the Map entry of the name goes.
ClearAccount(i) ==
    /\ IsPrefsJs
    /\ i \in 1..Len(prefsPage.appSettings.accounts)
    /\ prefsPage' = [prefsPage EXCEPT !.selectedTargets =
          {t \in @ : t[1] # prefsPage.appSettings.accounts[i].name}]
    /\ UNCHANGED localStorage
    /\ PrefsFrame

\* selectAllTargets / clearAllTargets (prefs.js:366-381).
selectAllTargets ==
    /\ IsPrefsJs
    /\ prefsPage' = [prefsPage EXCEPT !.selectedTargets =
          {c \in PrefsJsCharacters(prefsPage) :
              ~isSourceCharacter(prefsPage.selectedSource, c[1], c[2])}]
    /\ UNCHANGED localStorage
    /\ PrefsFrame

clearAllTargets ==
    /\ IsPrefsJs
    /\ prefsPage' = [prefsPage EXCEPT !.selectedTargets = {}]
    /\ UNCHANGED localStorage
    /\ PrefsFrame

\* A .pref-item-checkbox is clicked (prefs.js:219-242).
PrefsJsItemChange(id) ==
    /\ IsPrefsJs
    /\ prefsPage' = [prefsPage EXCEPT
                        !.checkedItems = IF id \in @ THEN @ \ {id} ELSE @ \cup {id}]
    /\ UNCHANGED localStorage
    /\ PrefsFrame

\* The message of the check that rejects the copy, or "" (prefs.js:386-418).
PrefsJsCopyRejection(page) ==
    IF Trim(page.prefsRootInput) = "" THEN "providePath"
    ELSE IF page.selectedSource = NoKey THEN "selectSource"
    ELSE IF page.checkedItems = {} THEN "chooseItem"
    ELSE IF page.selectedTargets = {} THEN "selectTarget"
    ELSE ""

\* copyPreferences (prefs.js:383-432) up to the await of the fetch: the path
\* is stored and saved after the four checks passed (420-421).  The buttons
\* stay enabled while a request is out.
copyPreferences(makeBackup) ==
    /\ IsPrefsJs
    /\ LET prefsRoot == Trim(prefsPage.prefsRootInput)
           rejection == PrefsJsCopyRejection(prefsPage)
           settings == [prefsPage.appSettings EXCEPT !.prefsRoot = prefsRoot]
           payload == [url |-> "/api/copy_preferences",
                       body |-> [prefsRoot |-> prefsRoot,
                                 source |-> [accountName |-> prefsPage.selectedSource[1],
                                             characterId |-> prefsPage.selectedSource[2]],
                                 targets |-> {[accountName |-> t[1], characterId |-> t[2]] :
                                                 t \in prefsPage.selectedTargets},
                                 items |-> prefsPage.checkedItems,
                                 makeBackup |-> makeBackup]]
       IN IF rejection # ""
          THEN /\ prefsPage' = [prefsPage EXCEPT !.message = rejection]
               /\ UNCHANGED localStorage
          ELSE /\ prefsPage' = [prefsPage EXCEPT
                                   !.appSettings = settings,
                                   !.message = "copying",
                                   !.requests = Append(@, payload)]
               /\ localStorage' = JsonStringify(settings)
    /\ PrefsFrame

\* A copy request answered or threw (prefs.js:433-457).
PrefsJsCopyResponse(resp) ==
    /\ IsPrefsJs
    /\ Len(prefsPage.requests) > 0
    /\ prefsPage' = [prefsPage EXCEPT
                        !.requests = Tail(@),
                        !.message = IF resp = "reject" THEN "backendUnreachable"
                                    ELSE resp]
    /\ UNCHANGED localStorage
    /\ PrefsFrame

(***************************************************************************)
(* The preference page opens on what the launcher page stored: a roster    *)
(* without or with a path setting of an earlier visit, or nothing; the     *)
(* stored source key may name a character that is gone.                    *)
(***************************************************************************)
\* The page reads account names and character ids only, so the rosters it
\* opens on differ in those: no character is selected, all are named "a",
\* the characters of an account are listed by id, and every account has a
\* name of its own and a character.
PrefsRosters ==
    {r \in LaunchRosters :
        /\ TotalChars(r) <= MaxPrefsChars
        /\ ~AnySelected(r)
        /\ \A i, h \in 1..Len(r) : r[i].name = r[h].name => i = h
        /\ \A i \in 1..Len(r) : Len(r[i].characters) > 0
        /\ \A i \in 1..Len(r) : \A j \in 1..Len(r[i].characters) :
              /\ r[i].characters[j].name = "a"
              /\ j > 1 => r[i].characters[j - 1].id <= r[i].characters[j].id}

StoredSettings ==
    {[gameFolder |-> "C:\\AO", dllFolder |-> "C:\\AO", accounts |-> r,
      autoCycle |-> FALSE] : r \in PrefsRosters}
    \cup {[gameFolder |-> "C:\\AO", dllFolder |-> "C:\\AO", accounts |-> r,
           autoCycle |-> FALSE, prefsBasePath |-> "C:\\Prefs",
           prefsRoot |-> "C:\\Prefs"] : r \in PrefsRosters}

StoredItems == {NoItem} \cup {JsonStringify(settings) : settings \in StoredSettings}

StoredKeys == {NoKey} \cup (AccountNames \X CharIds)

InitPrefs ==
    /\ localStorage \in StoredItems
    /\ prefsPage \in {PreferencesPage(localStorage, key) : key \in StoredKeys}
                        \cup {PrefsJsPage(localStorage, idType) :
                                idType \in IF localStorage.absent THEN {"number"}
                                           ELSE IdTypes}
    /\ appSettings = DefaultSettings
    /\ lastOp = [op |-> "init", message |-> "none", text |-> ""]
    /\ otherRun = IdleRun
    /\ pc = "idle"
    /\ selectedCharacters = <<>>
    /\ selectedAccounts = {}
    /\ accountsData = <<>>
    /\ accountsToClose = {}
    /\ checkResult = NoResult
    /\ requests = <<>>
    /\ checksSeen = <<>>

NextPrefs ==
    \/ \E value \in PathInputs : PrefsBasePathInput(value)
    \/ SavePrefsBasePath
    \/ \E value \in StoredKeys : SourceCharacterChange(value)
    \/ \E key \in AccountNames \X CharIds : TargetCheckboxChange(key)
    \/ \E accountName \in AccountNames, shouldSelect \in BOOLEAN :
          setAccountSelection(accountName, shouldSelect)
    \/ handleSelectAllTargets
    \/ handleClearAllTargets
    \/ \E id \in PreferenceItemIds : PreferenceItemChange(id)
    \/ handleSelectAllPrefs
    \/ handleClearAllPrefs
    \/ handleDefaultPrefs
    \/ \E createBackup \in BOOLEAN : handleCopyPreferences(createBackup)
    \/ \E resp \in CopyResponses : CopyResponse(resp)
    \/ \E value \in PathInputs : PrefsRootInput(value)
    \/ \E value \in StoredKeys : handleSourceChange(value)
    \/ \E i \in 1..MaxAccounts, j \in 1..MaxChars : PrefsJsTargetChange(i, j)
    \/ \E i \in 1..MaxAccounts : SelectAccount(i)
    \/ \E i \in 1..MaxAccounts : ClearAccount(i)
    \/ selectAllTargets
    \/ clearAllTargets
    \/ \E id \in PreferenceItemIds : PrefsJsItemChange(id)
    \/ \E makeBackup \in BOOLEAN :
          /\ IsPrefsJs
          /\ PrefsJsCopyRejection(prefsPage) # ""
                \/ Len(prefsPage.requests) < MaxCopyRequests
          /\ copyPreferences(makeBackup)
    \/ \E resp \in CopyResponses : PrefsJsCopyResponse(resp)

SpecPrefs == InitPrefs /\ [][NextPrefs]_vars

(***************************************************************************)
(* Copy clicks while a copy request is out: the pages open on a stored     *)
(* roster of two characters with the path set, and the operator picks a    *)
(* source, selects targets and clicks the copy buttons as the page lets    *)
(* them.                                                                   *)
(***************************************************************************)
CopyRosters == {r \in PrefsRosters : TotalChars(r) = MaxPrefsChars}

InitCopies ==
    /\ localStorage \in
          {JsonStringify([gameFolder |-> "C:\\AO", dllFolder |-> "C:\\AO",
                          accounts |-> r, autoCycle |-> FALSE,
                          prefsBasePath |-> "C:\\Prefs", prefsRoot |-> "C:\\Prefs"]) :
              r \in CopyRosters}
    /\ prefsPage \in {PreferencesPage(localStorage, NoKey),
                       PrefsJsPage(localStorage, "number")}
    /\ appSettings = DefaultSettings
    /\ lastOp = [op |-> "init", message |-> "none", text |-> ""]
    /\ otherRun = IdleRun
    /\ pc = "idle"
    /\ selectedCharacters = <<>>
    /\ selectedAccounts = {}
    /\ accountsData = <<>>
    /\ accountsToClose = {}
    /\ checkResult = NoResult
    /\ requests = <<>>
    /\ checksSeen = <<>>

NextCopies ==
    \/ \E value \in StoredKeys : SourceCharacterChange(value)
    \/ handleSelectAllTargets
    \/ \E createBackup \in BOOLEAN : handleCopyPreferences(createBackup)
    \/ \E resp \in CopyResponses : CopyResponse(resp)
    \/ \E value \in StoredKeys : handleSourceChange(value)
    \/ selectAllTargets
    \/ \E makeBackup \in BOOLEAN :
          /\ IsPrefsJs
          /\ Len(prefsPage.requests) < MaxOverlapCopies
          /\ copyPreferences(makeBackup)
    \/ \E resp \in CopyResponses : PrefsJsCopyResponse(resp)

SpecCopies == InitCopies /\ [][NextCopies]_vars

(***************************************************************************)
(* saveBatBtn.onclick (script.js:750-832): the launch script of the        *)
(* selection.  The text is kept as its header values and, per command      *)
(* line, the blank-separated words of the line, which is how the command   *)
(* interpreter hands them to the program.                                  *)
(***************************************************************************)
BatPasswords == {"pw", "p w"}

\* The words of a name or password of the model.
Words(s) == IF s = "p w" THEN <<"p", "w">> ELSE <<s>>

\* `${char.characterId}`.
DecimalText(n) ==
    CASE n = 1 -> "1"
      [] n = 2 -> "2"
      [] n = 3 -> "3"
      [] n = Null -> "null"
      [] OTHER -> "NaN"

RECURSIVE BatSelectedOfAccount(_, _)
BatSelectedOfAccount(account, chars) ==
    IF chars = <<>> THEN <<>>
    ELSE (IF Head(chars).selected
          THEN <<[accountName |-> account.name, password |-> account.password,
                  characterId |-> Head(chars).id,
                  characterName |-> Head(chars).name]>>
          ELSE <<>>) \o BatSelectedOfAccount(account, Tail(chars))

RECURSIVE BatSelected(_)
BatSelected(accounts) ==
    IF accounts = <<>> THEN <<>>
    ELSE BatSelectedOfAccount(Head(accounts), Head(accounts).characters)
         \o BatSelected(Tail(accounts))

\* `\ndotnet AOQuickLauncher.dll ${accountName} ${password} ${characterId}`
BatCommandLine(char) ==
    <<"dotnet", "AOQuickLauncher.dll">> \o Words(char.accountName)
        \o Words(char.password) \o <<DecimalText(char.characterId)>>

BatContent(settings, selected) ==
    [AOPath |-> settings.gameFolder,
     cd |-> settings.dllFolder,
     commands |-> [k \in 1..Len(selected) |-> BatCommandLine(selected[k])]]

\* The names of the model hold letters only, which the replace() keeps.
BatFilename(selected) ==
    IF Len(selected) = 1
    THEN [single |-> TRUE, characterName |-> selected[1].characterName, count |-> 1]
    ELSE [single |-> FALSE, characterName |-> "", count |-> Len(selected)]

\* picked: the file went through showSaveFilePicker; otherwise (no such API,
\* the dialog cancelled or failed) it is downloaded.
SaveBat(picked) ==
    /\ LET selected == BatSelected(appSettings.accounts)
       IN lastOp' =
            IF Len(selected) = 0
            THEN [op |-> "saveBat", message |-> "warning", text |-> "noCharactersSelected"]
            ELSE IF appSettings.gameFolder = "" \/ appSettings.dllFolder = ""
            THEN [op |-> "saveBat", message |-> "error", text |-> "specifyFolders"]
            ELSE [op |-> "saveBat", message |-> "success",
                  text |-> IF picked THEN "savedTo" ELSE "savedAsBat",
                  download |-> [filename |-> BatFilename(selected),
                                content |-> BatContent(appSettings, selected)]]
    /\ UNCHANGED <<appSettings, localStorage, launchVars, prefsPage>>

(***************************************************************************)
(* The export is looked at from rosters of one or two accounts whose       *)
(* password may hold a blank, with any selection and folder settings.      *)
(***************************************************************************)
BatRosters ==
    {[i \in 1..Len(r) |-> [r[i] EXCEPT !.password = p[i]]] :
        r \in {r \in LaunchRosters :
                 /\ TotalChars(r) <= MaxBatChars
                 /\ \A i, h \in 1..Len(r) : r[i].name = r[h].name => i = h
                 /\ \A i \in 1..Len(r) : \A j \in 1..Len(r[i].characters) :
                       r[i].characters[j].id = j},
        p \in [1..MaxAccounts -> BatPasswords]}

InitBat ==
    /\ appSettings \in [gameFolder : FolderValues, dllFolder : FolderValues,
                        accounts : BatRosters, autoCycle : {FALSE}]
    /\ localStorage = saveSettingsToLocalStorage(appSettings)
    /\ lastOp = [op |-> "init", message |-> "none", text |-> ""]
    /\ LaunchIdle

NextBat ==
    \/ \E picked \in BOOLEAN : SaveBat(picked)
    \/ \E i \in 1..MaxAccounts, j \in 1..MaxChars, c \in BOOLEAN : Toggle(i, j, c)
    \/ LaunchClick

SpecBat == InitBat /\ [][NextBat]_vars

(***************************************************************************)
(* The launcher handlers that write a field and save without rendering:    *)
(* the password dialog's save button (script.js:343-358), the comment      *)
(* editor (script.js:164-203), the two folder boxes (script.js:383-391)    *)
(* and the auto-cycle checkbox (script.js:894-897).                        *)
(***************************************************************************)
PasswordInputs == {"", " ", "new"}
CommentInputs == {"", " ", "note"}

SaveOnly(settings) ==
    /\ appSettings' = settings
    /\ localStorage' = saveSettingsToLocalStorage(settings)
    /\ UNCHANGED <<launchVars, prefsPage>>

EditPassword(accIndex, typed) ==
    /\ accIndex \in 1..Len(appSettings.accounts)
    /\ LET newPassword == Trim(typed)
       IN IF newPassword = ""
          THEN /\ lastOp' = [op |-> "editPassword", message |-> "warning",
                             text |-> "enterNewPassword"]
               /\ UNCHANGED <<appSettings, localStorage, launchVars, prefsPage>>
          ELSE /\ SaveOnly([appSettings EXCEPT !.accounts[accIndex].password =
                               newPassword])
               /\ lastOp' = [op |-> "editPassword", message |-> "success",
                             text |-> "passwordUpdated"]

EditComment(accIndex, charIndex, typed) ==
    /\ accIndex \in 1..Len(appSettings.accounts)
    /\ charIndex \in 1..Len(appSettings.accounts[accIndex].characters)
    /\ SaveOnly([appSettings EXCEPT
                    !.accounts[accIndex].characters[charIndex].comment = Trim(typed)])
    /\ lastOp' = [op |-> "editComment", message |-> "none", text |-> ""]

GameFolderInput(value) ==
    /\ SaveOnly([appSettings EXCEPT !.gameFolder = value])
    /\ lastOp' = [op |-> "gameFolderInput", message |-> "none", text |-> ""]

DllFolderInput(value) ==
    /\ SaveOnly([appSettings EXCEPT !.dllFolder = value])
    /\ lastOp' = [op |-> "dllFolderInput", message |-> "none", text |-> ""]

AutoCycleChange(checked) ==
    /\ SaveOnly([appSettings EXCEPT !.autoCycle = checked])
    /\ lastOp' = [op |-> "autoCycleChange", message |-> "none", text |-> ""]

(***************************************************************************)
(* Config files of any kind are loaded into the launcher page, between     *)
(* edits of the folder boxes and the auto-cycle checkbox.                  *)
(***************************************************************************)
NextLoad ==
    \/ \E f \in ConfigFiles \cup MalformedFiles : LoadConfigFile(f)
    \/ \E value \in FolderValues : GameFolderInput(value)
    \/ \E value \in FolderValues : DllFolderInput(value)
    \/ \E checked \in BOOLEAN : AutoCycleChange(checked)

SpecLoad == Init /\ [][NextLoad]_vars

(***************************************************************************)
(* The launcher page and a preference page are open on the same browser    *)
(* storage: both loaded the item 'aoLauncherSettings' as the preference    *)
(* page last wrote it, each keeps its own appSettings object, and each     *)
(* handler that saves writes its own object to the item.                   *)
(***************************************************************************)
InitPages ==
    /\ localStorage \in
          {JsonStringify([gameFolder |-> "C:\\AO", dllFolder |-> "C:\\AO",
                          accounts |-> r, autoCycle |-> FALSE,
                          prefsBasePath |-> "C:\\Prefs", prefsRoot |-> "C:\\Prefs"]) :
              r \in {r \in CopyRosters : Len(r) = 1}}
    /\ appSettings = renderUI(loadSettingsFromLocalStorage(localStorage))
    /\ prefsPage \in {PreferencesPage(localStorage, NoKey),
                      PrefsJsPage(localStorage, "number")}
    /\ lastOp = [op |-> "pageLoad", message |-> "none", text |-> ""]
    /\ otherRun = IdleRun
    /\ pc = "idle"
    /\ selectedCharacters = <<>>
    /\ selectedAccounts = {}
    /\ accountsData = <<>>
    /\ accountsToClose = {}
    /\ checkResult = NoResult
    /\ requests = <<>>
    /\ checksSeen = <<>>

\* The handlers of the launcher page that save.
LauncherSave ==
    \/ \E c \in BOOLEAN : Toggle(1, 1, c)
    \/ AddCharacter(1, "B", [kind |-> "numeral", n |-> 1])
    \/ RemoveCharacter(1, 1)
    \/ RemoveAccount(1)
    \/ AddAccount("Foo", "pw")
    \/ ClearSelection
    \/ EditPassword(1, "new")
    \/ EditComment(1, 1, "note")
    \/ GameFolderInput("")
    \/ DllFolderInput("")
    \/ AutoCycleChange(TRUE)

\* The handlers of the preference pages that save.
PreferencePageSave ==
    \/ PrefsBasePathInput("")
    \/ SavePrefsBasePath
    \/ PrefsRootInput("")

NextPages == LauncherSave \/ PreferencePageSave

SpecPages == InitPages /\ [][NextPages]_vars

(***************************************************************************)
(* The operator keeps working on the roster while a launch sequence waits  *)
(* for an answer or for the settle timer: clicks on the checkboxes, the    *)
(* remove button and the password dialog run between the steps of          *)
(* launchBtn.onclick.                                                      *)
(***************************************************************************)
InitEdits == InitOverlap

NextEdits ==
    \/ LaunchClick
    \/ \E resp \in CheckResponses : CheckResponse(resp)
    \/ \E rejected \in BOOLEAN : CloseResponse(rejected)
    \/ SettleElapsed
    \/ \E resp \in CheckResponses : RecheckResponse(resp)
    \/ \E resp \in LaunchResponses : LaunchResponse(resp)
    \/ \E resp \in FocusResponses : FocusResponse(resp)
    \/ \E j \in 1..MaxChars : Toggle(1, j, FALSE)
    \/ \E j \in 1..MaxChars : RemoveCharacter(1, j)
    \/ \E typed \in PasswordInputs : EditPassword(1, typed)

SpecEdits == InitEdits /\ [][NextEdits]_vars

(***************************************************************************)
(* Roster claims, checked under Spec.                                      *)
(***************************************************************************)
\* C16: clearing the selection is idempotent: a clear that directly follows
\* a clear leaves the roster state as the first one left it, and shows no
\* 'selections cleared' message; a clear leaves nothing selected.
C16_ClearSelectionIdempotent ==
    /\ [](lastOp.op = "clearSelection" => ~AnySelected(appSettings.accounts))
    /\ [][(lastOp.op = "clearSelection" /\ ClearSelection)
             => /\ appSettings' = appSettings
                /\ lastOp'.message = "none"
                /\ lastOp'.text = ""]_vars

\* A clear ran on a roster of two accounts with a character each and found
\* nothing selected.
C16_Witness ==
    /\ lastOp.op = "clearSelection"
    /\ lastOp.message = "none"
    /\ Len(appSettings.accounts) = 2
    /\ \A i \in 1..2 : Len(appSettings.accounts[i].characters) > 0
    /\ ~AnySelected(appSettings.accounts)

\* C17: a plain click on a character of one account leaves the selected
\* flag of every character of every other account as it was, and leaves the
\* names, ids, passwords and comments of all accounts as they were.
C17_PlainToggleFrame ==
    [][\A accIndex \in 1..MaxAccounts, charIndex \in 1..MaxChars :
          Toggle(accIndex, charIndex, FALSE) =>
            /\ Len(appSettings'.accounts) = Len(appSettings.accounts)
            /\ \A h \in 1..Len(appSettings.accounts) :
                  LET before == appSettings.accounts[h]
                      after == appSettings'.accounts[h]
                  IN /\ after.name = before.name
                     /\ after.password = before.password
                     /\ Len(after.characters) = Len(before.characters)
                     /\ \A k \in 1..Len(before.characters) :
                           /\ after.characters[k].name = before.characters[k].name
                           /\ after.characters[k].id = before.characters[k].id
                           /\ after.characters[k].comment = before.characters[k].comment
                           /\ h # accIndex =>
                                 after.characters[k].selected
                                     = before.characters[k].selected]_vars

\* A plain click was the last thing done and two accounts hold a selected
\* character each: the click in one left the selection of the other.
C17_Witness ==
    /\ lastOp.op = "toggle"
    /\ Len(appSettings.accounts) = 2
    /\ \A i \in 1..2 : SelectedCount(appSettings.accounts[i]) > 0

\* C25: a plain click on character c computes the intended state as the
\* negation of c's flag; when it is true c ends selected and every other
\* character of c's account unselected, when it is false c ends unselected
\* and the other characters of the account keep their flags.
C25_PlainToggleWithinAccount ==
    [][\A accIndex \in 1..MaxAccounts, charIndex \in 1..MaxChars :
          Toggle(accIndex, charIndex, FALSE) =>
            LET before == appSettings.accounts[accIndex].characters
                after == appSettings'.accounts[accIndex].characters
                intendedState == ~before[charIndex].selected
            IN /\ Len(after) = Len(before)
               /\ after[charIndex].selected = intendedState
               /\ \A k \in 1..Len(before) :
                     k # charIndex =>
                        after[k].selected
                            = (IF intendedState THEN FALSE ELSE before[k].selected)]_vars

\* A plain click was the last thing done on a roster with an account of two
\* characters of which exactly one is selected.
C25_Witness ==
    /\ lastOp.op = "toggle"
    /\ \E i \in 1..Len(appSettings.accounts) :
          /\ Len(appSettings.accounts[i].characters) = 2
          /\ SelectedCount(appSettings.accounts[i]) = 1

RosterOps ==
    {"toggle", "ctrlToggle", "addChar", "removeChar", "removeAccount",
     "addAccount", "clearSelection", "loadConfig"}

\* C33: after every roster-mutating operation of the launcher page the
\* settings in local storage equal the settings in memory, the order of the
\* accounts and of the characters within each account included.
C33_StorageEqualsMemory ==
    (lastOp.op \in RosterOps /\ lastOp.message \notin {"warning", "error"})
        => localStorage = JsonStringify(appSettings)

\* C34: when loading a config file ends with an error message, the settings
\* in memory and the settings in local storage are what they were before
\* the load.
C34_FailedLoadHasNoEffect ==
    [][\A f \in ConfigFiles \cup MalformedFiles :
          (LoadConfigFile(f) /\ lastOp'.message = "error")
            => /\ appSettings' = appSettings
               /\ localStorage' = localStorage]_vars

\* C18: saving the settings to the config file and then loading that file
\* gives the state back: the same accounts and characters with the same
\* ids and selection flags, the same folders and auto-cycle flag, in the
\* order renderUI's sort by name puts them.
C18_ExportThenLoadRestores ==
    [][LoadSavedConfig => appSettings' = renderUI(appSettings)]_vars

\* C21: in every roster state the launcher's operations reach, every
\* character has a non-empty name and an integer id greater than 0 that no
\* other character of its account has.
C21_CharactersWellFormed ==
    \A i \in 1..Len(appSettings.accounts) :
        LET characters == appSettings.accounts[i].characters
        IN \A j \in 1..Len(characters) :
              /\ characters[j].name # ""
              /\ characters[j].id \in Nat
              /\ characters[j].id > 0
              /\ \A k \in 1..Len(characters) :
                    characters[k].id = characters[j].id => k = j

\* s is in ascending order of name under localeCompare.
AscendingByName(s) ==
    \A i, j \in 1..Len(s) : i < j => localeCompare(s[i].name, s[j].name) <= 0

RequestsTo(url) == {k \in 1..Len(requests) : requests[k].url = url}

NoLaunchOrFocus(reqs) ==
    \A k \in 1..Len(reqs) : reqs[k].url \notin {"/launch", "/focus_launcher_window"}

LowerNames(names) == {toLowerCase(n) : n \in names}

\* A selected character of the roster that a launch entry stands for.
EntryIsRunning(entry, running) ==
    \E i \in 1..Len(appSettings.accounts) :
        /\ appSettings.accounts[i].name = entry.accountName
        /\ \E j \in SelectedIndices(appSettings.accounts[i]) :
              /\ appSettings.accounts[i].characters[j].id = entry.characterId
              /\ toLowerCase(appSettings.accounts[i].characters[j].name)
                    \in LowerNames(running)

\* C4: the launch request holds no character whose name is in the running set
\* returned by the last conflict check of the sequence.
C4_NoLaunchOfRunningCharacter ==
    pc = "launch" =>
        \A k \in RequestsTo("/launch") :
            \A e \in 1..Len(requests[k].body.characters) :
                ~EntryIsRunning(requests[k].body.characters[e],
                                checkResult.runningCharacters)

LastVerdict == checksSeen[Len(checksSeen)]

NonConflicted(selected, conflictedAccounts) ==
    SelectSeq(selected, LAMBDA e : e.accountName \notin conflictedAccounts)

\* C5: when the final conflict check answered conflicts_found, the one launch
\* request of the sequence holds exactly the selected characters whose
\* account is not conflicted, in roster order, and it directly follows that
\* check: nothing is asked of the user in between.
C5_LaunchesExactlyNonConflicted ==
    (RequestsTo("/launch") # {} /\ LastVerdict.status = "conflicts_found") =>
        /\ Cardinality(RequestsTo("/launch")) = 1
        /\ \A k \in RequestsTo("/launch") :
              /\ requests[k].body.characters =
                    NonConflicted(CollectSelected(appSettings.accounts),
                                  LastVerdict.conflictedAccounts)
              /\ requests[k - 1].url = "/check_and_focus_window"

\* Two characters of two accounts were selected, one account was conflicted,
\* and the launch request holding the other character is in flight.
C5_Witness ==
    /\ pc = "launch"
    /\ checkResult.status = "conflicts_found"
    /\ Len(CollectSelected(appSettings.accounts)) = 2
    /\ Len(selectedCharacters) = 1
    /\ selectedCharacters[1].accountName \notin checkResult.conflictedAccounts

AllSelectedConflicted(verdict) ==
    /\ verdict.ok
    /\ verdict.status = "conflicts_found"
    /\ \A k \in 1..Len(CollectSelected(appSettings.accounts)) :
          CollectSelected(appSettings.accounts)[k].accountName
              \in verdict.conflictedAccounts

\* C6 as stated: once a conflict check of the sequence answered
\* conflicts_found with every selected character in a conflicted account, the
\* sequence sends no launch request and no focus request.
C6_AnyAllConflictedNeverLaunches ==
    (\E k \in 1..Len(checksSeen) : AllSelectedConflicted(checksSeen[k]))
        => NoLaunchOrFocus(requests)

\* C6 amended: when the final conflict check of the sequence (the check whose
\* answer reaches the status switch: the recheck after an auto-cycle closure,
\* otherwise the initial check) answered conflicts_found with every selected
\* character in a conflicted account, the sequence is over and has sent no
\* launch request and no focus request.
C6_FinalAllConflictedNeverLaunches ==
    (/\ pc \notin {"close", "settle", "recheck"}
     /\ checksSeen # <<>>
     /\ AllSelectedConflicted(LastVerdict))
        => (pc = "idle" /\ NoLaunchOrFocus(requests))

\* Both selected characters belonged to conflicted accounts: the sequence is
\* over after its single check request.
C6_Witness ==
    /\ pc = "idle"
    /\ lastOp.text = "conflictsDetected"
    /\ Len(CollectSelected(appSettings.accounts)) = 2
    /\ Len(requests) = 1
    /\ AllSelectedConflicted(LastVerdict)

\* C7: when a conflict check (the initial one or the recheck) answers with
\* status error or unsupported, the sequence ends there with an error
\* message, having sent no launch request, and the roster and its selection
\* are what they were.
C7_ErrorStatusAborts ==
    [][\A resp \in CheckResponses :
          (/\ CheckResponse(resp) \/ RecheckResponse(resp)
           /\ resp.kind = "json"
           /\ resp.status \in {"error", "unsupported"})
              => (/\ pc' = "idle"
                  /\ lastOp'.message = "error"
                  /\ NoLaunchOrFocus(requests')
                  /\ appSettings' = appSettings)]_vars

\* The recheck after an auto-cycle closure answered with an error status and
\* the sequence ended.
C7_Witness ==
    /\ pc = "idle"
    /\ lastOp.op = "recheckResponse"
    /\ lastOp.text = "checkFailed"
    /\ Len(requests) = 3

\* C8: Launch pressed with no character selected, or with the game folder or
\* the DLL folder empty, is rejected with a message: no request is sent, and
\* roster, selection and the stored settings are what they were.
C8_InvalidLaunchHasNoEffect ==
    [][(/\ LaunchClick
        /\ \/ ~AnySelected(appSettings.accounts)
           \/ appSettings.gameFolder = ""
           \/ appSettings.dllFolder = "")
          => (/\ requests' = <<>>
              /\ pc' = "idle"
              /\ lastOp'.message \in {"warning", "error"}
              /\ appSettings' = appSettings
              /\ localStorage' = localStorage)]_vars

\* Launch was pressed with a character selected and a folder setting empty.
C8_Witness ==
    /\ lastOp.op = "launchClick"
    /\ lastOp.text = "specifyFolders"
    /\ AnySelected(appSettings.accounts)
    /\ pc = "idle"
    /\ requests = <<>>

\* The owning account of a running name: the first account of the roster
\* with a character of that name, compared without case.
IsOwner(accounts, i, runningCharName) ==
    /\ OwnsRunning(accounts[i], runningCharName)
    /\ \A h \in 1..(i - 1) : ~OwnsRunning(accounts[h], runningCharName)

\* C9: with auto-cycle, when the recheck's running set still holds a
\* character whose owning account is in accountsToClose, the sequence ends
\* with the "failed to close" error and sends no launch request.
C9_StaleWindowAborts ==
    [][\A resp \in CheckResponses :
          (/\ RecheckResponse(resp)
           /\ resp.kind = "json" /\ resp.ok
           /\ \E r \in resp.runningCharacters :
                 \E i \in 1..Len(appSettings.accounts) :
                     /\ IsOwner(appSettings.accounts, i, r)
                     /\ appSettings.accounts[i].name \in accountsToClose)
              => (/\ pc' = "idle"
                  /\ lastOp'.message = "error"
                  /\ lastOp'.text = "failedToClose"
                  /\ NoLaunchOrFocus(requests'))]_vars

\* A recheck reported a window of an account that was to be closed, and the
\* sequence ended with the error after check, close and recheck.
C9_Witness ==
    /\ pc = "idle"
    /\ lastOp.op = "recheckResponse"
    /\ lastOp.text = "failedToClose"
    /\ Len(requests) = 3

ExpectedAccountsToClose(accounts, running) ==
    {accounts[i].name : i \in
        {i \in 1..Len(accounts) :
            \E r \in running :
                /\ IsOwner(accounts, i, r)
                /\ \/ SelectedCount(accounts[i]) = 0
                   \/ \E j \in SelectedIndices(accounts[i]) :
                         toLowerCase(accounts[i].characters[j].name) # toLowerCase(r)}}

\* C10: with auto-cycle, for a roster with at most one selected character per
\* account, accountsToClose is exactly the set of accounts that own a running
\* character and have no selected character or a selected character of
\* another name (names compared without case).
C10_AccountsToCloseAsSpecified ==
    (/\ appSettings.autoCycle
     /\ AtMostOneSelectedPerAccount
     /\ pc = "close" \/ (pc = "launch" /\ Len(checksSeen) = 1))
        => accountsToClose =
              ExpectedAccountsToClose(appSettings.accounts,
                                      checkResult.runningCharacters)

\* C11: a launch sequence sends at most one close request and at most two
\* check requests; a second check request is the third request of the
\* sequence, right after the close request, it is sent by the step that ends
\* the settle delay, and no further check follows it whatever it answers.
C11_OneCloseTwoChecks ==
    /\ [](/\ Cardinality(RequestsTo("/close_running_instances")) <= 1
          /\ Cardinality(RequestsTo("/check_and_focus_window")) <= 2
          /\ \A k \in RequestsTo("/check_and_focus_window") :
                k = 1 \/ (k = 3 /\ requests[2].url = "/close_running_instances"))
    /\ [][(/\ Len(requests') > Len(requests)
           /\ requests'[Len(requests')].url = "/check_and_focus_window"
           /\ Len(requests) > 0)
             => (pc = "settle" /\ pc' = "recheck")]_vars

\* A sequence that closed windows, rechecked and went on to the launch
\* request: check, close, check, launch.
C11_Witness ==
    /\ pc = "launch"
    /\ Len(requests) = 4
    /\ requests[2].url = "/close_running_instances"
    /\ requests[3].url = "/check_and_focus_window"
    /\ Len(checksSeen) = 2

\* The roster with character j the only selected one of account i.
WithSelected(accounts, i, j) ==
    [accounts EXCEPT ![i].characters =
        [k \in 1..Len(@) |-> [@[k] EXCEPT !.selected = (k = j)]]]

\* The report section 4.2 of the specification asks for: an account is
\* conflicted when it owns a running character whose name differs, without
\* case, from the name of a selected character of the account.
SpecifiedConflicts(accounts, running) ==
    {accounts[i].name : i \in
        {i \in 1..Len(accounts) :
            \E r \in running : \E j \in SelectedIndices(accounts[i]) :
                /\ IsOwner(accounts, i, r)
                /\ toLowerCase(accounts[i].characters[j].name) # toLowerCase(r)}}

SpecifiedReport(accounts, running) ==
    [status |-> IF SpecifiedConflicts(accounts, running) = {}
                THEN "no_conflicts" ELSE "conflicts_found",
     conflictedAccounts |-> SpecifiedConflicts(accounts, running)]

\* C13: the conflict check reports conflicts_found for an account whose
\* running character differs from its selected one and no_conflicts when
\* they match, so two selections that differ only in which character of an
\* account is selected get different reports when one of them matches.  The
\* report answers the check request: whenever moving the selection inside an
\* account leaves the check request as it was sent, the specified report is
\* the same for both selections, for every running set.
C13_CheckRequestTellsSelectionsApart ==
    pc = "check" =>
        \A i \in 1..Len(appSettings.accounts) :
            \A j \in 1..Len(appSettings.accounts[i].characters) :
                LET alt == WithSelected(appSettings.accounts, i, j)
                IN CheckRequest(AccountsDataOf(alt),
                                AccountNamesOf(CollectSelected(alt))) = requests[1]
                      => \A running \in RunningSets :
                            SpecifiedReport(alt, running) =
                                SpecifiedReport(appSettings.accounts, running)

(***************************************************************************)
(* Overlapping launch sequences, checked under SpecOverlap.                *)
(***************************************************************************)
LaunchedBy(reqs) ==
    UNION {{reqs[k].body.characters[e] : e \in 1..Len(reqs[k].body.characters)} :
              k \in {k \in 1..Len(reqs) : reqs[k].url = "/launch"}}

\* C12: launch sequences are serialized: two sequences are never in flight
\* at once, so no character is in the launch requests of two sequences that
\* are both in flight.
C12_LaunchSequencesSerialized ==
    (pc # "idle" /\ otherRun.pc # "idle")
        => LaunchedBy(requests) \cap LaunchedBy(otherRun.requests) = {}

\* The urls of the requests sent so far, in the order sent.
RequestUrls == [k \in 1..Len(requests) |-> requests[k].url]

IsPrefix(s, t) == Len(s) <= Len(t) /\ s = SubSeq(t, 1, Len(s))

DirectStages ==
    <<"/check_and_focus_window", "/launch", "/focus_launcher_window">>

CycleStages ==
    <<"/check_and_focus_window", "/close_running_instances",
      "/check_and_focus_window", "/launch", "/focus_launcher_window">>

\* C27: the stages of a launch sequence come strictly in order: the initial
\* check and its answer; only with auto-cycle on and accounts to close, the
\* close request, the settle delay, the recheck and its answer; then the
\* launch request; then the focus request. The launch request is never sent
\* before the last check sent has answered.
C27_StagesInOrder ==
    /\ IsPrefix(RequestUrls, DirectStages) \/ IsPrefix(RequestUrls, CycleStages)
    /\ RequestsTo("/close_running_instances") # {}
          => appSettings.autoCycle /\ IsPrefix(RequestUrls, CycleStages)
    /\ RequestsTo("/launch") # {}
          => Len(checksSeen) = Cardinality(RequestsTo("/check_and_focus_window"))
    /\ pc = "check" => lastOp.op = "launchClick" /\ Len(requests) = 1
    /\ pc = "close" =>
          /\ lastOp.op = "checkResponse"
          /\ Len(requests) = 2
          /\ Len(checksSeen) = 1
          /\ accountsToClose # {}
    /\ pc = "settle" => lastOp.op = "closeResponse" /\ Len(requests) = 2
    /\ pc = "recheck" => lastOp.op = "settleElapsed" /\ Len(requests) = 3
    /\ pc = "launch" =>
          /\ lastOp.op \in {"checkResponse", "recheckResponse"}
          /\ requests[Len(requests)].url = "/launch"
    /\ pc = "focus" =>
          /\ lastOp.op = "launchResponse"
          /\ requests[Len(requests)].url = "/focus_launcher_window"

\* A sequence went through every stage: check, close, settle, recheck,
\* launch, and its focus request is out.
C27_Witness ==
    /\ pc = "focus"
    /\ RequestUrls = CycleStages
    /\ Len(checksSeen) = 2

\* C28: when the close-and-recheck of auto-cycle does not abort, the status
\* and the conflicted accounts that decide whether and what to launch are
\* those of the recheck answer: the launch request carries the selection
\* filtered by the recheck's conflicted accounts, the messages are those of
\* the recheck's status, and the check result kept is the recheck answer,
\* whatever the initial check had answered.
C28_RecheckAnswerDecides ==
    [][\A resp \in CheckResponses :
          (/\ RecheckResponse(resp)
           /\ lastOp'.text \notin {"errorManagingWindows", "failedToClose"})
          => LET remaining ==
                     SelectSeq(selectedCharacters,
                         LAMBDA char : char.accountName \notin resp.conflictedAccounts)
                 launched ==
                     IF resp.status = "conflicts_found" THEN remaining
                     ELSE selectedCharacters
                 aborts ==
                     \/ resp.status \in {"error", "unsupported"}
                     \/ resp.status = "conflicts_found" /\ remaining = <<>>
             IN IF aborts
                THEN /\ pc' = "idle"
                     /\ requests' = requests
                     /\ lastOp'.text = (IF resp.status = "conflicts_found"
                                        THEN "conflictsDetected" ELSE "checkFailed")
                ELSE /\ pc' = "launch"
                     /\ checkResult' = resp
                     /\ requests' = Append(requests,
                                           LaunchRequest(appSettings, launched))
                     /\ lastOp'.text =
                          (IF resp.status = "conflicts_found" THEN "launchingRemaining"
                           ELSE IF resp.status = "no_conflicts" THEN "noConflicts"
                           ELSE "unknownStatus")]_vars

\* The initial check found a conflict, the windows were closed, the recheck
\* found none, and the launch request is out.
C28_Witness ==
    /\ pc = "launch"
    /\ lastOp.op = "recheckResponse"
    /\ Len(checksSeen) = 2
    /\ checksSeen[1].status = "conflicts_found"
    /\ checksSeen[2].status = "no_conflicts"
    /\ checkResult.status = "no_conflicts"

\* C29: with auto-cycle off no close request is ever sent and the check is
\* queried exactly once in a sequence; with auto-cycle on, an accepted
\* initial check answer is followed by a close request exactly when
\* accountsToClose is non-empty, and that request names exactly the accounts
\* of accountsToClose.
C29_CloseRequestIffAccountsToClose ==
    /\ [](~appSettings.autoCycle =>
            /\ RequestsTo("/close_running_instances") = {}
            /\ requests # <<>> =>
                  Cardinality(RequestsTo("/check_and_focus_window")) = 1)
    /\ [][\A resp \in CheckResponses :
            (/\ CheckResponse(resp)
             /\ resp.kind = "json"
             /\ resp.ok
             /\ appSettings.autoCycle)
            => LET toClose ==
                       ComputeAccountsToClose(appSettings.accounts, selectedCharacters,
                                              resp.runningCharacters)
                   closeSent ==
                       /\ Len(requests') = Len(requests) + 1
                       /\ requests'[Len(requests')].url = "/close_running_instances"
               IN /\ closeSent <=> toClose # {}
                  /\ closeSent =>
                        /\ requests'[Len(requests')].body.selectedAccounts = toClose
                        /\ accountsToClose' = toClose
                        /\ pc' = "close"]_vars

\* With auto-cycle on and two accounts in the roster, a close request is out
\* that names one of them.
C29_Witness ==
    /\ pc = "close"
    /\ appSettings.autoCycle
    /\ Len(appSettings.accounts) = 2
    /\ Cardinality(accountsToClose) = 1
    /\ requests[2].body.selectedAccounts = accountsToClose

\* C30: a launch request is sent only when the final check answered
\* no_conflicts, or conflicts_found with a non-empty remainder of the
\* selection; for every other status no launch request is sent.
C30_LaunchOnlyOnClearedStatus ==
    RequestsTo("/launch") # {} =>
        LET final == checksSeen[Len(checksSeen)]
            launched == requests[CHOOSE k \in RequestsTo("/launch") : TRUE].body.characters
        IN \/ final.status = "no_conflicts"
           \/ final.status = "conflicts_found" /\ Len(launched) > 0

\* The step ended the sequence with an error message and sent nothing; the
\* settings in memory and in storage are as they were.
EndsInErrorWithoutRequest ==
    /\ pc' = "idle"
    /\ lastOp'.message = "error"
    /\ requests' = requests
    /\ RequestsTo("/launch") = {}
    /\ appSettings' = appSettings
    /\ localStorage' = localStorage

\* C31: when the initial check or the recheck answers with a non-OK
\* response, or a check request or the close request raises an exception,
\* the sequence ends with an error message, no launch request is sent,
\* nothing is sent again, and roster and selection are unchanged.
C31_FailedRequestEndsSequence ==
    [][/\ \A resp \in CheckResponses :
            (resp.kind = "reject" \/ ~resp.ok) =>
                /\ CheckResponse(resp) => EndsInErrorWithoutRequest
                /\ RecheckResponse(resp) => EndsInErrorWithoutRequest
       /\ CloseResponse(TRUE) => EndsInErrorWithoutRequest]_vars

\* The close request raised an exception after a check had answered: the
\* sequence is over with the window management error and two requests sent.
C31_Witness ==
    /\ pc = "idle"
    /\ lastOp.op = "closeResponse"
    /\ lastOp.message = "error"
    /\ Len(requests) = 2
    /\ Len(checksSeen) = 1

(***************************************************************************)
(* Launch snapshot claim, checked under SpecEdits.                         *)
(***************************************************************************)
Elements(s) == {s[k] : k \in 1..Len(s)}

\* C32: the characters of a launch request are a subset of the characters
\* selected when Launch was pressed, with the credentials read then: the
\* click takes the selection with names, passwords and ids from the roster
\* of that moment, no later step of the sequence adds to or rewrites what
\* was taken, whatever is toggled, removed or edited meanwhile, and the
\* launch request carries what is left of it.
C32_LaunchRequestFromSnapshot ==
    /\ [][(LaunchClick /\ pc' # "idle")
            => selectedCharacters' = CollectSelected(appSettings.accounts)]_vars
    /\ [][(pc # "idle" /\ pc' # "idle")
            => Elements(selectedCharacters') \subseteq Elements(selectedCharacters)]_vars
    /\ [][(Len(requests') > Len(requests)
             /\ requests'[Len(requests')].url = "/launch")
            => /\ pc # "idle"
               /\ Elements(requests'[Len(requests')].body.characters)
                     \subseteq Elements(selectedCharacters)]_vars

\* A launch request is out after a check without conflicts, and it carries
\* a character that the roster no longer shows as taken: it was deselected,
\* removed or given another password while the check was pending.
C32_Witness ==
    /\ pc = "launch"
    /\ checksSeen[Len(checksSeen)].status = "no_conflicts"
    /\ Len(selectedCharacters) > 0
    /\ requests[Len(requests)].body.characters = selectedCharacters
    /\ Elements(selectedCharacters)
          \cap Elements(CollectSelected(appSettings.accounts)) = {}

(***************************************************************************)
(* Preference page claims, checked under SpecPrefs.                        *)
(***************************************************************************)
\* The source of the page, as a key, or NoKey.
PageSource ==
    IF IsPreferencesJs THEN prefsPage.sourceCharacterKey
    ELSE IF IsPrefsJs THEN prefsPage.selectedSource
    ELSE NoKey

HasPrefsPage == IsPreferencesJs \/ IsPrefsJs

\* C14: in every reachable state of the preference-copy page the selected
\* targets do not contain the source character, and no copy request that was
\* sent lists its source among its targets.
C14_SourceNeverTargeted ==
    HasPrefsPage =>
        /\ PageSource # NoKey => PageSource \notin prefsPage.selectedTargets
        /\ \A k \in 1..Len(prefsPage.requests) :
              prefsPage.requests[k].body.source
                  \notin prefsPage.requests[k].body.targets

\* C15: a copy click that fails the page's validation (no path, no source,
\* no item, no target) has no side effect: no request is sent, and the
\* settings in memory and the stored settings stay as they were.
C15_RejectedCopyHasNoEffect ==
    [][((\/ /\ \E createBackup \in BOOLEAN : handleCopyPreferences(createBackup)
            /\ CopyRejection(prefsPage) # ""
         \/ /\ \E makeBackup \in BOOLEAN : copyPreferences(makeBackup)
            /\ PrefsJsCopyRejection(prefsPage) # "")
        => /\ localStorage' = localStorage
           /\ prefsPage'.appSettings = prefsPage.appSettings
           /\ prefsPage'.requests = prefsPage.requests)]_vars

\* C19: every answer to a launch request, whatever its outcome, puts a
\* message before the user.
C19_LaunchAnswerAlwaysShown ==
    lastOp.op = "launchResponse" => lastOp.message # "none"

\* C20: the focus request is sent only by the step that receives a launch
\* answer with status success or partial_success, right after the launch
\* request; whatever the focus request returns, the message shown for the
\* launch stays and no error is shown.
C20_FocusOnlyAfterLaunchAndSilent ==
    /\ [](\A k \in RequestsTo("/focus_launcher_window") :
            /\ k = Len(requests)
            /\ k > 1
            /\ requests[k - 1].url = "/launch")
    /\ [][(Len(requests') > Len(requests)
            /\ requests'[Len(requests')].url = "/focus_launcher_window")
          => /\ pc = "launch"
             /\ pc' = "focus"
             /\ lastOp'.op = "launchResponse"
             /\ lastOp'.text \in {"success", "partial_success"}]_vars
    /\ [][(pc = "focus" /\ pc' # "focus")
          => /\ lastOp'.op = "focusResponse"
             /\ lastOp'.message = lastOp.message
             /\ lastOp'.text = lastOp.text
             /\ lastOp'.message \in {"success", "warning"}
             /\ requests' = requests]_vars

\* The focus request of a partly successful launch was answered.
C20_Witness ==
    /\ lastOp.op = "focusResponse"
    /\ lastOp.text = "partial_success"
    /\ pc = "idle"
    /\ RequestsTo("/focus_launcher_window") # {}

(***************************************************************************)
(* Copy serialization claim, checked under SpecCopies.                     *)
(***************************************************************************)
\* C24: copy requests are serialized: at most one copy request is out at
\* any time, and on the page that disables its copy buttons they are
\* disabled exactly while a request is out.
C24_CopyRequestsSerialized ==
    HasPrefsPage =>
        /\ Len(prefsPage.requests) <= 1
        /\ IsPreferencesJs => (prefsPage.copying <=> Len(prefsPage.requests) = 1)

(***************************************************************************)
(* Shared storage claims, checked under SpecPages.                         *)
(***************************************************************************)
\* The preferences path an item holds, per key; a key that is missing reads
\* as the empty path on both preference pages.
StoredPrefsPaths(item) ==
    IF item.absent THEN [prefsRoot |-> "", prefsBasePath |-> ""]
    ELSE [prefsRoot |-> IF "prefsRoot" \in DOMAIN item.doc
                        THEN item.doc.prefsRoot ELSE "",
          prefsBasePath |-> IF "prefsBasePath" \in DOMAIN item.doc
                            THEN item.doc.prefsBasePath ELSE ""]

StoredRoster(item) == IF item.absent THEN <<>> ELSE item.doc.accounts

\* C35: a save of the launcher page (selection toggle, add or remove of an
\* account or character, folder edit, auto-cycle change, comment or
\* password edit) leaves the preferences path that a preference page stored
\* in the same item as it was.
C35_LauncherSaveKeepsPrefsPath ==
    [][LauncherSave
         => StoredPrefsPaths(localStorage') = StoredPrefsPaths(localStorage)]_vars

\* C36: a save of a preference page leaves the stored roster as it was:
\* what the launcher page added, removed or selected after the preference
\* page loaded is still in the item afterwards.
C36_PreferenceSaveKeepsRoster ==
    [][PreferencePageSave
         => StoredRoster(localStorage') = StoredRoster(localStorage)]_vars

(***************************************************************************)
(* Launch script claim, checked under SpecBat.                             *)
(***************************************************************************)
\* The three arguments the program of a command line is started with.
CommandArguments(line) == SubSeq(line, 3, 5)

\* C23: the launch script written for a state holds one command per selected
\* character, in the order of the list the Launch button builds from that
\* state, each started with that entry's account name, password and
\* character id; writing it leaves roster and selection as they were.
C23_BatCommandsAreTheLaunchList ==
    (lastOp.op = "saveBat" /\ lastOp.message = "success") =>
        LET launchList == CollectSelected(appSettings.accounts)
            commands == lastOp.download.content.commands
        IN /\ Len(commands) = Len(launchList)
           /\ \A k \in 1..Len(launchList) :
                 CommandArguments(commands[k])
                    = <<launchList[k].accountName, launchList[k].password,
                        DecimalText(launchList[k].characterId)>>

====
